---- MODULE Spec2Model ----
(***************************************************************************)
(* Artifact storage and retrieval of the Jamalpur chamber application.     *)
(*                                                                         *)
(* Write path (server): the controllers createNotice, updateNotice,        *)
(* deleteNotice, submitFormWithFile, deleteSubmission and uploadImage,     *)
(* on top of the helpers uploadToCloudinary and deleteFromCloudinary.      *)
(* A handler is an async function: it is modelled await by await, so that  *)
(* requests interleave where the event loop lets them.                     *)
(* Read path (browser): PDFHandler.download / view / print.                *)
(*                                                                         *)
(* Strings are modelled as sequences of atoms.  A path separator, a host   *)
(* name, a path segment and a single character of a file name are atoms;   *)
(* String.includes and String.replace work on these sequences the way the  *)
(* JavaScript functions work on characters.                                *)
(***************************************************************************)
EXTENDS Integers, Sequences, FiniteSets, TLC

VARIABLES
    disk,        \* staged upload files that exist in the temp directory
    store,       \* artifacts held by the remote store: [id, rtype]
    notices,     \* Notice collection: slot -> NoDoc or a record
    submissions, \* FormSubmission collection: slot -> NoDoc or a record
    gallery,     \* GalleryImage collection: slot -> NoDoc or a record
    nreq,        \* number of requests that arrived so far; it numbers the staged
                 \* file of a request (multer's unique suffix) and the
                 \* artifact it puts (the store's fresh id)
    res,         \* the request answered last and the response sent for it
    log          \* the store calls issued by the request answered last

serverVars == <<disk, store, notices, submissions, gallery, nreq, res, log>>

VARIABLES
    dl,          \* the browser's calls of PDFHandler: call id -> call record
    active       \* the call ids that may be used

clientVars == <<dl, active>>

VARIABLES
    env,         \* process.env.NODE_ENV of the server process
    inflight     \* the requests being handled: request -> the handler it
                 \* runs and how far that has come

procVars == <<env, inflight>>

vars == <<disk, store, notices, submissions, gallery, nreq, res, log, dl, active,
          env, inflight>>

----------------------------------------------------------------------------
(* Bounds *)

MaxReqs == 2       \* requests the server handles over a run, together or
                   \* one after the other
MaxNameLen == 3    \* characters of a file name given to the sanitization
MaxCalls == 2      \* calls of the PDF handler that can be in flight together
MaxSegments == 2   \* path segments of a request handed to the gallery router

----------------------------------------------------------------------------
(* Strings as sequences of atoms *)

\* String.prototype.indexOf: the least position where p occurs in s, 0 if none
IndexOf(s, p) ==
    LET hits == {i \in 1..(Len(s) - Len(p) + 1) : SubSeq(s, i, i + Len(p) - 1) = p}
    IN IF hits = {} THEN 0 ELSE CHOOSE i \in hits : \A j \in hits : i <= j

\* String.prototype.includes
Includes(s, p) == IndexOf(s, p) # 0

\* String.prototype.replace with a string pattern: the first occurrence only
ReplaceFirst(s, p, r) ==
    LET i == IndexOf(s, p)
    IN IF i = 0 THEN s
       ELSE SubSeq(s, 1, i - 1) \o r \o SubSeq(s, i + Len(p), Len(s))

ImageSeg == <<"/", "image", "/", "upload", "/">>
RawSeg == <<"/", "raw", "/", "upload", "/">>
CloudHost == "res.cloudinary.com"
CloudBase == <<"https://", CloudHost, "/", "cloud">>

Undef == "undefined"
PdfMime == <<"application/", "pdf">>
JpegMime == <<"image/", "jpeg">>
PdfExt == <<".", "p", "d", "f">>
JpgExt == <<".", "j", "p", "g">>
PngExt == <<".", "p", "n", "g">>

----------------------------------------------------------------------------
(* The remote store (Cloudinary), as the helpers use it *)

IdNames == <<"id1", "id2", "id3", "id4">>
NoUpload == [mimetype |-> <<>>, originalname |-> <<>>, ext |-> <<>>]
NoFile == [publicId |-> <<>>, originalName |-> <<>>, url |-> <<>>, mimetype |-> <<>>]
NoPath == 0
\* the method and path of a request that came through a router; none for a
\* handler called with a request of its own
NoRoute == [method |-> "none", path |-> <<>>]
NoReq ==
    [handler |-> "none", doc |-> {}, staged |-> NoPath, mimetype |-> <<>>, status |-> 0,
     message |-> "none", dbError |-> FALSE, via |-> NoRoute]

DefaultFolder == <<"jamalpur-chamber">>
GalleryFolder == <<"jamalpur-chamber", "/", "gallery">>

\* the files multer's fileFilter lets through, with the name the client gave
UploadFiles ==
    { [mimetype |-> PdfMime, originalname |-> <<"r">> \o PdfExt, ext |-> PdfExt],
      [mimetype |-> JpegMime, originalname |-> <<"p">> \o JpgExt, ext |-> JpgExt] }

\* the options objects passed to uploadToCloudinary; Undef is an absent key
NoOptions == [folder |-> <<>>, resource_type |-> Undef, quality |-> Undef, fetch_format |-> Undef]
GalleryOptions ==
    [folder |-> GalleryFolder, resource_type |-> "image", quality |-> "auto", fetch_format |-> "auto"]
AllOptions ==
    [folder : {<<>>, GalleryFolder}, resource_type : {Undef, "auto", "image", "raw"},
     quality : {Undef, "auto"}, fetch_format : {Undef, "auto"}]

\* what the store answers to a put: a failure, or the resource type it filed
\* the artifact under and the delivery segment of the URL it reports (a raw
\* artifact may come back with an image URL, which is what FixUrl repairs)
PutReplies ==
    { [ok |-> FALSE, resource_type |-> "none", seg |-> "none"],
      [ok |-> TRUE, resource_type |-> "image", seg |-> "image"],
      [ok |-> TRUE, resource_type |-> "raw", seg |-> "raw"],
      [ok |-> TRUE, resource_type |-> "raw", seg |-> "image"] }

\* a store files an explicit image request as an image; for raw and auto
\* requests the reported type and URL are the store's choice
RepliesFor(config) ==
    {r \in PutReplies :
        (r.ok /\ config.resource_type = "image") => (r.resource_type = "image" /\ r.seg = "image")}

\* a request without a file reaches no put: there is no reply to choose
NoReply == [ok |-> FALSE, resource_type |-> "none", seg |-> "none"]
RepliesTo(file, config) == IF file = NoUpload THEN {NoReply} ELSE RepliesFor(config)

\* Delivery URL shape: <base>/<segment>/upload/<folder>/<id>[.ext]
PublicId(folder, n) == folder \o <<"/", IdNames[n]>>
DeliveryUrl(seg, publicId, ext) == CloudBase \o <<"/", seg, "/", "upload", "/">> \o publicId \o ext

----------------------------------------------------------------------------
(* uploadToCloudinary and deleteFromCloudinary *)

\* the configuration object built before the put: defaults, then the caller's options
BaseConfig(options) ==
    [folder |-> IF options.folder = <<>> THEN DefaultFolder ELSE options.folder,
     resource_type |-> IF options.resource_type = Undef THEN "auto" ELSE options.resource_type,
     type |-> "upload",
     access_mode |-> "public",
     quality |-> options.quality,
     fetch_format |-> options.fetch_format]

\* image-only options are added unless the resource type is raw
UploadConfig(options) ==
    LET baseConfig == BaseConfig(options)
    IN IF baseConfig.resource_type # "raw"
       THEN [baseConfig EXCEPT !.quality = "auto", !.fetch_format = "auto"]
       ELSE baseConfig

\* the "PDF uploaded but resource_type is not raw" warning
MismatchWarning(options, reply) ==
    reply.ok /\ options.resource_type = "raw" /\ reply.resource_type # "raw"

\* the URL fix applied to the store's secure_url
FixUrl(options, resultType, secureUrl) ==
    IF options.resource_type = "raw" \/ resultType = "raw"
    THEN IF Includes(secureUrl, ImageSeg)
         THEN ReplaceFirst(secureUrl, ImageSeg, RawSeg)
         ELSE secureUrl
    ELSE secureUrl

uploadToCloudinarySwallows(file, options, reply, n) ==
    LET config == UploadConfig(options)
        publicId == PublicId(config.folder, n)
    IN [threw |-> FALSE,
        put_ok |-> reply.ok,
        config |-> config,
        warned |-> MismatchWarning(options, reply),
        public_id |-> IF reply.ok THEN publicId ELSE <<>>,
        resource_type |-> reply.resource_type,
        secure_url |-> IF reply.ok
                       THEN FixUrl(options, reply.resource_type,
                                   DeliveryUrl(reply.seg, publicId, file.ext))
                       ELSE <<>>]

\* the outcome of uploadToCloudinary(filePath, options) when the store answers
\* `reply` and files the artifact as number n: it throws, or returns the result
uploadToCloudinary(file, options, reply, n) ==
    LET config == UploadConfig(options)
        publicId == PublicId(config.folder, n)
    IN [threw |-> ~reply.ok,
        put_ok |-> reply.ok,
        config |-> config,
        warned |-> MismatchWarning(options, reply),
        public_id |-> IF reply.ok THEN publicId ELSE <<>>,
        resource_type |-> reply.resource_type,
        secure_url |-> IF reply.ok
                       THEN FixUrl(options, reply.resource_type,
                                   DeliveryUrl(reply.seg, publicId, file.ext))
                       ELSE <<>>]

PutEntry(up) ==
    [op |-> "put", ok |-> up.put_ok, publicId |-> up.public_id,
     resource_type |-> up.config.resource_type, quality |-> up.config.quality,
     fetch_format |-> up.config.fetch_format, stored |-> up.resource_type,
     warned |-> up.warned]

StoreAfterPut(st, up) ==
    IF ~up.put_ok THEN st ELSE st \cup {[id |-> up.public_id, rtype |-> up.resource_type]}

\* deleteFromCloudinary(publicId, resourceType = 'image'): the destroy call
\* removes the artifact filed under that id and resource type, or fails
DefaultDeleteType == "image"

DestroyEntry(publicId, resourceType, ok) ==
    [op |-> "destroy", ok |-> ok, publicId |-> publicId,
     resource_type |-> resourceType, quality |-> Undef, fetch_format |-> Undef,
     stored |-> "none", warned |-> FALSE]

StoreAfterDestroy(st, publicId, resourceType, ok) ==
    IF ok THEN st \ {[id |-> publicId, rtype |-> resourceType]} ELSE st

deleteFromCloudinaryRethrows(publicId, resourceType, ok) ==
    [threw |-> publicId # <<>> /\ ~ok,
     calls |-> IF publicId # <<>> THEN <<DestroyEntry(publicId, resourceType, ok)>> ELSE <<>>]

\* deleteFromCloudinary: the destroy calls it issues (none for a falsy
\* publicId) and whether it throws; its catch block logs the error and returns
deleteFromCloudinary(publicId, resourceType, ok) ==
    [threw |-> FALSE,
     calls |-> IF publicId # <<>> THEN <<DestroyEntry(publicId, resourceType, ok)>> ELSE <<>>]

----------------------------------------------------------------------------
(* The collections and the controllers *)

NoDoc == [present |-> FALSE, deleted |-> FALSE, pdfFile |-> NoFile]
NoImage == [present |-> FALSE, deleted |-> FALSE, imageUrl |-> <<>>, order |-> 0]
\* a document that was deleted: its _id is never given to another document
GoneDoc == [NoDoc EXCEPT !.deleted = TRUE]
GoneImage == [NoImage EXCEPT !.deleted = TRUE]
\* the _ids of a collection: the one of the document stored before the run
\* and one for every request, each of which creates at most one document
Slots == 1..(MaxReqs + 1)

FreeSlots(coll) == {i \in Slots : ~coll[i].present /\ ~coll[i].deleted}
FreeSlot(coll) == CHOOSE i \in FreeSlots(coll) : \A j \in FreeSlots(coll) : i <= j

\* multer's diskStorage: the upload is written to the temp directory, under a
\* fresh name, before the handler runs
StagedPath(file) == IF file = NoUpload THEN NoPath ELSE nreq + 1
Staged(file) == IF file = NoUpload THEN disk ELSE disk \cup {nreq + 1}
Stage(file) ==
    /\ nreq < MaxReqs
    /\ nreq' = nreq + 1

\* fs.existsSync(path) followed by fs.unlinkSync(path), and the plain unlinkSync
\* of a file that exists
Unlink(files, path) == files \ {path}

\* the pdfFile sub-document both controllers build from the upload result
PdfFileOf(up, file) ==
    [publicId |-> up.public_id, originalName |-> file.originalname,
     url |-> up.secure_url, mimetype |-> file.mimetype]

\* what each handler answers: bad (400), nofile (400), missing (404), up (the
\* put failed, 500), err (its catch block, 500), ok
Messages ==
    [createNotice |->
        [bad |-> "Title, content, and author are required", nofile |-> "none",
         missing |-> "none", up |-> "Failed to upload PDF file",
         err |-> "Server error while creating notice", ok |-> "Notice created successfully"],
     updateNotice |->
        [bad |-> "none", nofile |-> "none", missing |-> "Notice not found",
         up |-> "Failed to upload new PDF file",
         err |-> "Server error while updating notice", ok |-> "Notice updated successfully"],
     deleteNotice |->
        [bad |-> "none", nofile |-> "none", missing |-> "Notice not found", up |-> "none",
         err |-> "Server error while deleting notice", ok |-> "Notice deleted successfully"],
     submitFormWithFile |->
        [bad |-> "Name, email, phone, and message are required", nofile |-> "none",
         missing |-> "none", up |-> "Failed to upload PDF file",
         err |-> "Server error during form submission", ok |-> "Form submitted successfully"],
     deleteSubmission |->
        [bad |-> "none", nofile |-> "none", missing |-> "Form submission not found",
         up |-> "none", err |-> "Server error while deleting submission",
         ok |-> "Form submission deleted successfully"],
     uploadImage |->
        [bad |-> "Title, description, and alt text are required",
         nofile |-> "Image file is required", missing |-> "none",
         up |-> "Failed to upload image",
         err |-> "Server error while uploading gallery image",
         ok |-> "Gallery image uploaded successfully"],
     deleteImage |->
        [bad |-> "none", nofile |-> "none", missing |-> "Gallery image not found",
         up |-> "none", err |-> "Server error while deleting gallery image",
         ok |-> "Gallery image deleted successfully"],
     submitForm |->
        [bad |-> "Name, email, phone, and message are required", nofile |-> "none",
         missing |-> "none", up |-> "none",
         err |-> "Server error during form submission", ok |-> "Form submitted successfully"],
     updateImage |->
        [bad |-> "none", nofile |-> "none", missing |-> "Gallery image not found",
         up |-> "none", err |-> "Server error while updating gallery image",
         ok |-> "Gallery image updated successfully"],
     reorderImages |->
        [bad |-> "Image orders must be an array", nofile |-> "none", missing |-> "none",
         up |-> "none", err |-> "Server error while reordering gallery images",
         ok |-> "Gallery images reordered successfully"],
     getAllImages |->
        [bad |-> "none", nofile |-> "none", missing |-> "none", up |-> "none",
         err |-> "Server error while fetching gallery images", ok |-> "none"],
     getImagesByCategory |->
        [bad |-> "Invalid category", nofile |-> "none", missing |-> "none", up |-> "none",
         err |-> "Server error while fetching images by category", ok |-> "none"],
     getImageById |->
        [bad |-> "none", nofile |-> "none", missing |-> "Gallery image not found",
         up |-> "none", err |-> "Server error while fetching gallery image", ok |-> "none"],
     getGalleryStats |->
        [bad |-> "none", nofile |-> "none", missing |-> "none", up |-> "none",
         err |-> "Server error while fetching gallery statistics", ok |-> "none"],
     notFound |->
        [bad |-> "none", nofile |-> "none", missing |-> "API endpoint not found",
         up |-> "none", err |-> "none", ok |-> "none"],
     uploadToCloudinary |->
        [bad |-> "none", nofile |-> "none", missing |-> "none", up |-> "threw",
         err |-> "none", ok |-> "returned"]]

NoticeHandlers == {"createNotice", "updateNotice", "deleteNotice"}
FormHandlers == {"submitFormWithFile", "submitForm", "deleteSubmission"}
\* the handlers that begin with await Model.findById(id)
FindHandlers ==
    {"updateNotice", "deleteNotice", "deleteSubmission", "deleteImage", "updateImage",
     "getImageById"}
\* the handlers that find a document and save it again (getImageById through
\* image.incrementViewCount())
UpdateHandlers == {"updateNotice", "updateImage", "getImageById"}
\* the categories getImagesByCategory accepts
Categories == {"meeting", "event", "conference"}

\* the collection a handler works on
Collection(handler) ==
    IF handler \in NoticeHandlers THEN notices
    ELSE IF handler \in FormHandlers THEN submissions
    ELSE gallery

\* one document of the handler's collection is written, the other collections
\* are left alone
Write(handler, slot, value) ==
    /\ notices' = IF handler \in NoticeHandlers
                  THEN [notices EXCEPT ![slot] = value] ELSE notices
    /\ submissions' = IF handler \in FormHandlers
                      THEN [submissions EXCEPT ![slot] = value] ELSE submissions
    /\ gallery' = IF handler \in NoticeHandlers \cup FormHandlers
                  THEN gallery ELSE [gallery EXCEPT ![slot] = value]

\* the options a handler passes to uploadToCloudinary
Options(handler) == IF handler = "uploadImage" THEN GalleryOptions ELSE NoOptions

\* GalleryController.uploadImage: the largest order in the collection (0: none)
MaxOrder(coll) ==
    LET present == {i \in Slots : coll[i].present}
    IN IF present = {} THEN 0
       ELSE coll[CHOOSE i \in present : \A j \in present : coll[i].order >= coll[j].order].order

LastPart(u) ==
    LET slashes == {i \in 1..Len(u) : u[i] = "/"}
        last == IF slashes = {} THEN 0 ELSE CHOOSE i \in slashes : \A j \in slashes : j <= i
    IN SubSeq(u, last + 1, Len(u))
BeforeDot(part) ==
    LET dots == {i \in 1..Len(part) : part[i] = "."}
        first == IF dots = {} THEN Len(part) + 1 ELSE CHOOSE i \in dots : \A j \in dots : i <= j
    IN SubSeq(part, 1, first - 1)

\* the public id deleteImage rebuilds from the stored URL
GalleryPublicId(imageUrl) == GalleryFolder \o <<"/">> \o BeforeDot(LastPart(imageUrl))

\* req.body.order of updateImage and of the items of reorderImages: absent, or
\* a number
NoOrder == 0
NewOrders == {1, 2}
\* an id that is no ObjectId, as the "reorder" of PUT /reorder, which the
\* router hands to updateImage: findById rejects it with a CastError
CastId == 0

\* The handlers are async functions: each runs up to its next await, and other
\* requests run while it waits. A request is numbered by its arrival.
Reqs == 1..MaxReqs

\* a request that has not arrived yet; once it has, the locals of its handler:
\* the target id, the staged file, the public id read from the document found,
\* the pdfFile or imageUrl built from the put, the store calls made so far, the
\* database calls a reading handler has still to await, the route it came by
IdleRequest ==
    [pc |-> "idle", handler |-> "none", id |-> 0, file |-> NoUpload, path |-> NoPath,
     old |-> <<>>, pdf |-> NoFile, imageUrl |-> <<>>, calls |-> <<>>,
     startMax |-> 0, nextOrder |-> 0, slot |-> 0, status |-> 0,
     order |-> NoOrder, loaded |-> NoOrder, options |-> NoOptions, updates |-> {},
     awaits |-> 0, via |-> NoRoute]

\* a request that was answered: its locals are gone; of an upload the order
\* it started from and the image it created are remembered
Finished(r, status, slot) ==
    IF r.handler = "uploadImage"
    THEN [IdleRequest EXCEPT !.pc = "done", !.handler = r.handler, !.status = status,
                             !.slot = slot, !.startMax = r.startMax]
    ELSE [IdleRequest EXCEPT !.pc = "done", !.updates = r.updates]

\* the documents a response is about
Target(r) == IF r.handler \in FindHandlers THEN {r.id} ELSE {}

\* res.status(...).json(...): the response of request q, with the store calls
\* the request made; dbError tells that an awaited database call rejected
Answer(q, r, calls, doc, status, kind, dbError) ==
    /\ res' = [handler |-> r.handler, doc |-> doc, staged |-> r.path,
               mimetype |-> r.file.mimetype, status |-> status,
               message |-> Messages[r.handler][kind], dbError |-> dbError, via |-> r.via]
    /\ log' = calls
    /\ inflight' = [inflight EXCEPT ![q] =
           Finished(r, status, IF status = 201 THEN CHOOSE d \in doc : TRUE ELSE 0)]

\* the handler goes on to its next await
Await(q, r) ==
    /\ inflight' = [inflight EXCEPT ![q] = r]
    /\ UNCHANGED <<res, log>>

\* a request arrives, multer has staged its file, and the handler runs up to
\* its first await
ArrivesVia(via, handler, fieldsOk, id, file) ==
    LET q == nreq + 1
        r == [IdleRequest EXCEPT !.handler = handler, !.id = id, !.file = file,
                                 !.path = StagedPath(file), !.via = via,
                                 !.startMax = IF handler = "uploadImage"
                                              THEN MaxOrder(gallery) ELSE 0]
    IN /\ Stage(file)
       /\ disk' = Staged(file)
       /\ UNCHANGED <<store, notices, submissions, gallery, env, clientVars>>
       /\ IF handler \in FindHandlers
          THEN Await(q, [r EXCEPT !.pc = "finding"])
          ELSE IF ~fieldsOk
          THEN Answer(q, r, <<>>, {}, 400, "bad", FALSE)
          ELSE IF handler = "uploadImage" /\ file = NoUpload
          THEN Answer(q, r, <<>>, {}, 400, "nofile", FALSE)
          ELSE IF file # NoUpload
          THEN Await(q, [r EXCEPT !.pc = "putting"])
          ELSE Await(q, [r EXCEPT !.pc = "saving"])

Arrives(handler, fieldsOk, id, file) == ArrivesVia(NoRoute, handler, fieldsOk, id, file)

createNotice(fieldsOk, file) == Arrives("createNotice", fieldsOk, 0, file)
submitFormWithFile(fieldsOk, file) == Arrives("submitFormWithFile", fieldsOk, 0, file)
uploadImage(fieldsOk, file) == Arrives("uploadImage", fieldsOk, 0, file)
submitForm(fieldsOk) == Arrives("submitForm", fieldsOk, 0, NoUpload)
updateNotice(id, file) == Arrives("updateNotice", TRUE, id, file)
deleteNotice(id) == Arrives("deleteNotice", TRUE, id, NoUpload)
deleteSubmission(id) == Arrives("deleteSubmission", TRUE, id, NoUpload)
deleteImage(id) == Arrives("deleteImage", TRUE, id, NoUpload)

\* GalleryController.updateImage up to await GalleryImage.findById(id)
updateImageVia(via, id, order) ==
    LET q == nreq + 1
    IN /\ Stage(NoUpload)
       /\ UNCHANGED <<disk, store, notices, submissions, gallery, env, clientVars>>
       /\ Await(q, [IdleRequest EXCEPT !.handler = "updateImage", !.id = id, !.via = via,
                                       !.order = order, !.pc = "finding"])

updateImage(id, order) == updateImageVia(NoRoute, id, order)

\* GalleryController.getImageById up to await GalleryImage.findById(id). The
\* images are active ones (no request modelled sends isActive); viewCount,
\* like the title and the other fields no claim reads, is not kept, so the
\* save of incrementViewCount can only succeed or reject
getImageById(via, id) == ArrivesVia(via, "getImageById", TRUE, id, NoUpload)

\* the awaited queries of a handler that only reads: find and countDocuments;
\* for the statistics two countDocuments and two aggregate
Queries(handler) == IF handler = "getGalleryStats" THEN 4 ELSE 2

\* GalleryController.getAllImages, getImagesByCategory and getGalleryStats up to
\* the first await
readImages(via, handler, category) ==
    LET q == nreq + 1
        r == [IdleRequest EXCEPT !.handler = handler, !.via = via]
    IN /\ Stage(NoUpload)
       /\ UNCHANGED <<disk, store, notices, submissions, gallery, env, clientVars>>
       /\ IF handler = "getImagesByCategory" /\ category \notin Categories
          THEN Answer(q, r, <<>>, {}, 400, "bad", FALSE)
          ELSE Await(q, [r EXCEPT !.pc = "querying", !.awaits = Queries(handler)])

\* one awaited query of such a handler settles: the catch block, the next
\* query, or the answer
querySettles(q, ok) ==
    LET r == inflight[q]
    IN /\ r.pc = "querying"
       /\ UNCHANGED <<disk, store, notices, submissions, gallery, nreq, env, clientVars>>
       /\ IF ~ok THEN Answer(q, r, <<>>, {}, 500, "err", TRUE)
          ELSE IF r.awaits > 1 THEN Await(q, [r EXCEPT !.awaits = @ - 1])
          ELSE Answer(q, r, <<>>, {}, 200, "ok", FALSE)

\* no route of the router matches: the request falls through to the 404
\* handler of the API
notFound(via) ==
    LET q == nreq + 1
        r == [IdleRequest EXCEPT !.handler = "notFound", !.via = via]
    IN /\ Stage(NoUpload)
       /\ UNCHANGED <<disk, store, notices, submissions, gallery, env, clientVars>>
       /\ Answer(q, r, <<>>, {}, 404, "missing", FALSE)

\* await Model.findById(id) settles: it rejects (the handler's catch block), or
\* gives null (404), or the document, whose file the handler goes on with
findSettles(q, ok) ==
    LET r == inflight[q]
        doc == Collection(r.handler)[r.id]
        oldId == IF r.handler = "deleteImage"
                 THEN IF doc.imageUrl # <<>> THEN GalleryPublicId(doc.imageUrl) ELSE <<>>
                 ELSE IF r.handler \in {"updateImage", "getImageById"} THEN <<>>
                 ELSE doc.pdfFile.publicId
        hasFile == r.file # NoUpload
        next == IF r.handler = "updateNotice"
                THEN IF hasFile /\ oldId # <<>> THEN "destroying"
                     ELSE IF hasFile THEN "putting" ELSE "saving"
                ELSE IF r.handler \in {"updateImage", "getImageById"} THEN "saving"
                ELSE IF oldId # <<>> THEN "destroying" ELSE "removing"
    IN /\ r.pc = "finding"
       /\ r.id \notin Slots => ~ok
       /\ UNCHANGED <<store, notices, submissions, gallery, nreq, env, clientVars>>
       /\ IF ~ok
          THEN /\ disk' = Unlink(disk, r.path)
               /\ Answer(q, r, <<>>, {r.id}, 500, "err", TRUE)
          ELSE IF ~doc.present
          THEN /\ disk' = disk
               /\ Answer(q, r, <<>>, {r.id}, 404, "missing", FALSE)
          ELSE /\ disk' = disk
               /\ Await(q, [r EXCEPT !.pc = next, !.old = oldId,
                                     !.loaded = IF r.handler = "updateImage"
                                                THEN doc.order ELSE @])

\* await deleteFromCloudinary(publicId) settles
destroySettles(q, delOk) ==
    LET r == inflight[q]
        del == deleteFromCloudinary(r.old, DefaultDeleteType, delOk)
        calls == r.calls \o del.calls
    IN /\ r.pc = "destroying"
       /\ store' = IF del.calls = <<>> THEN store
                   ELSE StoreAfterDestroy(store, r.old, DefaultDeleteType, delOk)
       /\ UNCHANGED <<notices, submissions, gallery, nreq, env, clientVars>>
       /\ IF del.threw /\ r.handler = "updateNotice"
          THEN /\ disk' = Unlink(disk, r.path)
               /\ Answer(q, r, calls, {r.id}, 500, "up", FALSE)
          ELSE IF del.threw /\ r.handler # "deleteImage"
          THEN /\ disk' = disk
               /\ Answer(q, r, calls, {r.id}, 500, "err", FALSE)
          ELSE /\ disk' = disk
               /\ Await(q, [r EXCEPT !.calls = calls,
                                     !.pc = IF r.handler = "updateNotice"
                                            THEN "putting" ELSE "removing"])

\* await uploadToCloudinary(req.file.path, ...) settles: the helper removed the
\* staged file; it threw, or the handler builds pdfFile / imageUrl from the result
putSettles(q, reply) ==
    LET r == inflight[q]
        up == uploadToCloudinary(r.file, Options(r.handler), reply, q)
        calls == r.calls \o <<PutEntry(up)>>
    IN /\ r.pc = "putting"
       /\ reply \in RepliesFor(up.config)
       /\ UNCHANGED <<notices, submissions, gallery, nreq, env, clientVars>>
       /\ IF up.threw
          THEN /\ disk' = Unlink(Unlink(disk, r.path), r.path)
               /\ store' = store
               /\ Answer(q, r, calls, Target(r), 500, "up", FALSE)
          ELSE /\ disk' = Unlink(disk, r.path)
               /\ store' = StoreAfterPut(store, up)
               /\ IF r.handler = "uploadImage"
                  THEN Await(q, [r EXCEPT !.pc = "ordering", !.calls = calls,
                                          !.imageUrl = up.secure_url])
                  ELSE Await(q, [r EXCEPT !.pc = "saving", !.calls = calls,
                                          !.pdf = PdfFileOf(up, r.file)])

\* uploadImage: await GalleryImage.findOne({}, {}, { sort: { order: -1 } })
\* settles and the next order number is computed from it
orderSettles(q, ok) ==
    LET r == inflight[q]
        lastOrder == MaxOrder(gallery)
    IN /\ r.pc = "ordering"
       /\ UNCHANGED <<store, notices, submissions, gallery, nreq, env, clientVars>>
       /\ disk' = IF ok THEN disk ELSE Unlink(disk, r.path)
       /\ IF ok
          THEN Await(q, [r EXCEPT !.pc = "saving",
                                  !.nextOrder = IF lastOrder # 0 THEN lastOrder + 1 ELSE 1])
          ELSE Answer(q, r, r.calls, {}, 500, "err", TRUE)

\* await doc.save() settles. A new document gets an id of its own; the save of
\* a document found earlier rejects when the document is gone by now, and
\* writes only the paths the handler changed: an order equal to the one loaded
\* is not written, so the order another request stored meanwhile stays
saveSettles(q, saveOk) ==
    LET r == inflight[q]
        coll == Collection(r.handler)
        slot == FreeSlot(coll)
        created == IF r.handler = "uploadImage"
                   THEN [present |-> TRUE, deleted |-> FALSE, imageUrl |-> r.imageUrl,
                         order |-> r.nextOrder]
                   ELSE [present |-> TRUE, deleted |-> FALSE, pdfFile |-> r.pdf]
    IN /\ r.pc = "saving"
       /\ UNCHANGED <<store, nreq, env, clientVars>>
       /\ disk' = IF saveOk /\ (r.handler \in UpdateHandlers => coll[r.id].present)
                  THEN disk ELSE Unlink(disk, r.path)
       /\ IF r.handler \in UpdateHandlers
          THEN IF saveOk /\ coll[r.id].present
               THEN /\ Write(r.handler, r.id,
                             IF r.handler = "updateNotice"
                             THEN [notices[r.id] EXCEPT !.pdfFile =
                                      IF r.file # NoUpload THEN r.pdf ELSE @]
                             ELSE [gallery[r.id] EXCEPT !.order =
                                      IF r.order # NoOrder /\ r.order # r.loaded
                                      THEN r.order ELSE @])
                    /\ Answer(q, r, r.calls, {r.id}, 200, "ok", FALSE)
               ELSE /\ UNCHANGED <<notices, submissions, gallery>>
                    /\ Answer(q, r, r.calls, {r.id}, 500, "err", TRUE)
          ELSE IF saveOk
               THEN /\ Write(r.handler, slot, created)
                    /\ Answer(q, r, r.calls, {slot}, 201, "ok", FALSE)
               ELSE /\ UNCHANGED <<notices, submissions, gallery>>
                    /\ Answer(q, r, r.calls, {}, 500, "err", TRUE)

\* await Model.findByIdAndDelete(id) settles
removeSettles(q, ok) ==
    LET r == inflight[q]
    IN /\ r.pc = "removing"
       /\ UNCHANGED <<disk, store, nreq, env, clientVars>>
       /\ IF ok
          THEN /\ Write(r.handler, r.id, IF r.handler = "deleteImage" THEN GoneImage ELSE GoneDoc)
               /\ Answer(q, r, r.calls, {r.id}, 200, "ok", FALSE)
          ELSE /\ UNCHANGED <<notices, submissions, gallery>>
               /\ Answer(q, r, r.calls, {r.id}, 500, "err", TRUE)

\* GalleryController.reorderImages up to await Promise.all(updatePromises): one
\* findByIdAndUpdate is issued for every item of imageOrders
reorderImagesVia(via, isArray, imageOrders) ==
    LET q == nreq + 1
        r == [IdleRequest EXCEPT !.handler = "reorderImages", !.via = via]
    IN /\ Stage(NoUpload)
       /\ ~isArray => imageOrders = {}
       /\ UNCHANGED <<disk, store, notices, submissions, gallery, env, clientVars>>
       /\ IF ~isArray THEN Answer(q, r, <<>>, {}, 400, "bad", FALSE)
          ELSE IF imageOrders = {} THEN Answer(q, r, <<>>, {}, 200, "ok", FALSE)
          ELSE Await(q, [r EXCEPT !.pc = "reordering", !.updates = imageOrders])

reorderImages(isArray, imageOrders) == reorderImagesVia(NoRoute, isArray, imageOrders)

\* one findByIdAndUpdate(id, { order }) of a reorderImages request settles: the
\* order of a document that exists is written. Promise.all resolves with the
\* last of them and rejects with the first that rejects; the updates still
\* under way then settle after the response
updateSettles(q, u, ok) ==
    LET r == inflight[q]
        left == r.updates \ {u}
        after == [r EXCEPT !.updates = left]
    IN /\ u \in r.updates
       /\ UNCHANGED <<disk, store, notices, submissions, nreq, env, clientVars>>
       /\ gallery' = IF ok /\ gallery[u.id].present
                     THEN [gallery EXCEPT ![u.id].order = u.order] ELSE gallery
       /\ IF r.pc = "reordering" /\ ~ok
          THEN Answer(q, after, <<>>, {}, 500, "err", TRUE)
          ELSE IF r.pc = "reordering" /\ left = {}
          THEN Answer(q, after, <<>>, {}, 200, "ok", FALSE)
          ELSE Await(q, after)

----------------------------------------------------------------------------
(* The read path: PDFHandler, characters and names *)

Letters == {"a", "b", "c", "d", "e", "f", "g", "i", "j", "l", "m", "n", "o", "p", "r", "t", "u",
            "D", "F", "P"}
Digits == {"1", "2", "3"}
IsAlnum(ch) == ch \in Letters \cup Digits

\* String.prototype.toLowerCase, atom by atom
LowerAtom(a) ==
    CASE a = "P" -> "p" [] a = "D" -> "d" [] a = "F" -> "f"
      [] a = "PDF" -> "pdf" [] a = "APPLICATION/" -> "application/"
      [] OTHER -> a
Lower(s) == [i \in 1..Len(s) |-> LowerAtom(s[i])]

\* String.prototype.trim
RECURSIVE TrimLeft(_)
TrimLeft(s) == IF s # <<>> /\ Head(s) = " " THEN TrimLeft(Tail(s)) ELSE s
RECURSIVE TrimRight(_)
TrimRight(s) ==
    IF s # <<>> /\ s[Len(s)] = " " THEN TrimRight(SubSeq(s, 1, Len(s) - 1)) ELSE s
Trim(s) == TrimRight(TrimLeft(s))

Suffix(s, k) == SubSeq(s, Len(s) - k + 1, Len(s))

\* /\.[A-Za-z0-9]{2,6}$/
HasExtension(s) ==
    \E k \in 2..6 :
        /\ Len(s) >= k + 1
        /\ s[Len(s) - k] = "."
        /\ \A i \in (Len(s) - k + 1)..Len(s) : IsAlnum(s[i])

\* /\.pdf$/i
IsPdfName(s) == Len(s) >= 4 /\ Lower(Suffix(s, 4)) = PdfExt

OctetMime == <<"application/", "octet-stream">>
HtmlMime == <<"text/", "html">>
DocumentName == <<"d", "o", "c", "u", "m", "e", "n", "t">>

\* the extension inferred from a MIME type (getFilename and _downloadBlob)
ExtOfMime(mime) ==
    IF Includes(mime, <<"pdf">>) THEN PdfExt
    ELSE IF Includes(mime, <<"jpeg">>) \/ Includes(mime, <<"jpg">>) THEN JpgExt
    ELSE IF Includes(mime, <<"png">>) THEN PngExt
    ELSE IF Includes(mime, <<"gif">>) THEN <<".", "g", "i", "f">>
    ELSE <<>>

\* a || b on strings: the first that is not empty
Or(a, b) == IF a # <<>> THEN a ELSE b

getFilenameNoInference(pdfFile) ==
    IF ~pdfFile.given THEN DocumentName
    ELSE Or(Trim(Or(pdfFile.originalName, Or(pdfFile.name, Or(pdfFile.filename, DocumentName)))),
            DocumentName)

\* PDFHandler.getFilename
getFilename(pdfFile) ==
    IF ~pdfFile.given THEN DocumentName
    ELSE LET base == Trim(Or(pdfFile.originalName, Or(pdfFile.name, Or(pdfFile.filename, DocumentName))))
         IN IF HasExtension(base) THEN base
            ELSE Or(base \o ExtOfMime(Lower(pdfFile.mimetype)), DocumentName)

\* expectPdf of _downloadFromUrl and _downloadFromServer
expectPdf(pdfFile) ==
    IsPdfName(getFilename(pdfFile)) \/ Includes(Lower(pdfFile.mimetype), <<"pdf">>)

\* filename.replace(/[<>:"/\\|?*]/g, '_')
IllegalChars == {"<", ">", ":", "\"", "/", "\\", "|", "?", "*"}
ReplaceIllegalFirst(s) ==
    LET hits == {i \in 1..Len(s) : s[i] \in IllegalChars}
    IN [i \in 1..Len(s) |-> IF i \in hits /\ (\A j \in hits : i <= j) THEN "_" ELSE s[i]]
ReplaceIllegal(s) == [i \in 1..Len(s) |-> IF s[i] \in IllegalChars THEN "_" ELSE s[i]]

\* the name _downloadBlob offers to the host
BlobFilename(blob, filename) ==
    LET sanitizedFilename == Or(Trim(ReplaceIllegal(filename)), DocumentName)
    IN IF HasExtension(sanitizedFilename) THEN sanitizedFilename
       ELSE sanitizedFilename \o ExtOfMime(Lower(blob.type))

\* the name _downloadFromDataURL offers to the host
DataUrlFilename(pdfFile) ==
    LET sanitizedFilename == Or(Trim(ReplaceIllegal(getFilename(pdfFile))), DocumentName \o PdfExt)
    IN IF IsPdfName(sanitizedFilename) THEN sanitizedFilename
       ELSE sanitizedFilename \o PdfExt

----------------------------------------------------------------------------
(* The read path: which URL is fetched or opened *)

ApiBase == <<"https://", "jamalpur-chamber-backend-b61d.onrender.com", "/", "api">>

LegacyUrlByFileId(pdfFile) == ApiBase \o <<"/", "files", "/">> \o Or(pdfFile.fileId, pdfFile.filename)

\* `${API}/files/${pdfFile.filename || pdfFile.fileId}`
LegacyUrl(pdfFile) == ApiBase \o <<"/", "files", "/">> \o Or(pdfFile.filename, pdfFile.fileId)

\* fetchUrl.match(/res\.cloudinary\.com\/([^/]+)/)?.[1]
CloudName(u) ==
    LET hits == {i \in 1..(Len(u) - 2) : u[i] = CloudHost /\ u[i + 1] = "/" /\ u[i + 2] # "/"}
        i == CHOOSE h \in hits : \A j \in hits : h <= j
        stops == {j \in (i + 2)..Len(u) : u[j] = "/"}
        last == IF stops = {} THEN Len(u)
                ELSE (CHOOSE j \in stops : \A k \in stops : j <= k) - 1
    IN IF hits = {} THEN <<>> ELSE SubSeq(u, i + 2, last)

\* pdfFile.publicId.replace(/\.(pdf|jpg|jpeg|png|gif)$/i, '')
CleanPublicId(id) ==
    IF Len(id) >= 4 /\ Lower(Suffix(id, 4)) \in {PdfExt, JpgExt, PngExt, <<".", "g", "i", "f">>}
    THEN SubSeq(id, 1, Len(id) - 4)
    ELSE IF Len(id) >= 5 /\ Lower(Suffix(id, 5)) = <<".", "j", "p", "e", "g">>
    THEN SubSeq(id, 1, Len(id) - 5)
    ELSE id

\* the image-to-raw conversion of _downloadFromUrl
ConvertToRaw(u) == IF Includes(u, ImageSeg) THEN ReplaceFirst(u, ImageSeg, RawSeg) ELSE u

\* the raw URL rebuilt from the publicId
FromPublicId(pdfFile, u) ==
    IF pdfFile.publicId # <<>> /\ ~Includes(u, RawSeg) /\ CloudName(u) # <<>>
    THEN <<"https://", CloudHost, "/">> \o CloudName(u) \o RawSeg \o CleanPublicId(pdfFile.publicId)
    ELSE u

AddAttachmentAlways(u) ==
    LET separator == IF Includes(u, <<"?">>) THEN "&" ELSE "?"
    IN u \o <<separator, "fl_attachment">>

\* the attachment flag
AddAttachment(u) ==
    LET separator == IF Includes(u, <<"?">>) THEN "&" ELSE "?"
    IN IF ~Includes(u, <<"fl_attachment">>) THEN u \o <<separator, "fl_attachment">> ELSE u

\* fetchUrl of _downloadFromUrl
RemoteFetchUrl(pdfFile) ==
    IF Includes(pdfFile.url, <<CloudHost>>)
    THEN AddAttachment(FromPublicId(pdfFile, ConvertToRaw(pdfFile.url)))
    ELSE pdfFile.url

downloadStrategyDataAsLegacy(pdfFile) ==
    IF ~pdfFile.given THEN "invalid"
    ELSE IF pdfFile.url # <<>> THEN "remote"
    ELSE IF pdfFile.filename # <<>> \/ pdfFile.fileId # <<>> \/ pdfFile.data # <<>> THEN "legacy"
    ELSE "invalid"

\* the branch each operation takes for a descriptor
downloadStrategy(pdfFile) ==
    IF ~pdfFile.given THEN "invalid"
    ELSE IF pdfFile.url # <<>> THEN "remote"
    ELSE IF pdfFile.filename # <<>> \/ pdfFile.fileId # <<>> THEN "legacy"
    ELSE IF pdfFile.data # <<>> THEN "inline"
    ELSE "invalid"

viewStrategyLegacyFirst(pdfFile) ==
    IF ~pdfFile.given THEN "invalid"
    ELSE IF pdfFile.filename # <<>> \/ pdfFile.fileId # <<>> THEN "legacy"
    ELSE IF pdfFile.url # <<>> THEN "remote"
    ELSE IF pdfFile.data # <<>> THEN "inline"
    ELSE "invalid"

viewStrategy(pdfFile) ==
    IF ~pdfFile.given THEN "invalid"
    ELSE IF pdfFile.url # <<>> THEN "remote"
    ELSE IF pdfFile.filename # <<>> \/ pdfFile.fileId # <<>> THEN "legacy"
    ELSE IF pdfFile.data # <<>> THEN "inline"
    ELSE "invalid"

printStrategy(pdfFile) ==
    IF ~pdfFile.given THEN "invalid"
    ELSE IF pdfFile.url # <<>> THEN "remote"
    ELSE IF pdfFile.filename # <<>> \/ pdfFile.fileId # <<>> THEN "legacy"
    ELSE IF pdfFile.data # <<>> THEN "inline"
    ELSE "invalid"

\* the URL view and print hand to window.open
OpenUrl(strategy, pdfFile) ==
    CASE strategy = "remote" -> pdfFile.url
      [] strategy = "legacy" -> LegacyUrl(pdfFile)
      [] strategy = "inline" -> pdfFile.data
      [] OTHER -> <<>>

isValidUrlOnly(pdfFile) == pdfFile.given /\ pdfFile.url # <<>>

\* PDFHandler.isValid
isValid(pdfFile) ==
    /\ pdfFile.given
    /\ (pdfFile.url # <<>> \/ pdfFile.filename # <<>> \/ pdfFile.fileId # <<>> \/ pdfFile.data # <<>>)

----------------------------------------------------------------------------
(* The server: any request, handled together with the others in flight *)

ServerInit ==
    /\ disk = {}
    /\ store = {}
    /\ notices = [i \in Slots |-> NoDoc]
    /\ submissions = [i \in Slots |-> NoDoc]
    /\ gallery = [i \in Slots |-> NoImage]
    /\ nreq = 0
    /\ res = NoReq
    /\ log = <<>>

\* no browser call is made while the server is looked at
ClientIdle ==
    /\ dl = [c \in {1, 2} |-> [pc |-> "idle"]]
    /\ active = {}

\* the environment the README's .env sample sets; no request is in progress
ProcInit ==
    /\ env = "development"
    /\ inflight = [q \in Reqs |-> IdleRequest]

\* a server that has run before: one notice and one submission, each with a
\* PDF the store filed as raw, and one gallery image
EarlierPdf(name) ==
    [publicId |-> DefaultFolder \o <<"/", name>>,
     originalName |-> <<"r">> \o PdfExt,
     url |-> DeliveryUrl("raw", DefaultFolder \o <<"/", name>>, PdfExt),
     mimetype |-> PdfMime]
EarlierImage ==
    [present |-> TRUE, deleted |-> FALSE,
     imageUrl |-> DeliveryUrl("image", GalleryFolder \o <<"/", "g0">>, JpgExt),
     order |-> 1]

PopulatedInit ==
    /\ disk = {}
    /\ store = {[id |-> DefaultFolder \o <<"/", "n0">>, rtype |-> "raw"],
                [id |-> DefaultFolder \o <<"/", "s0">>, rtype |-> "raw"],
                [id |-> GalleryFolder \o <<"/", "g0">>, rtype |-> "image"]}
    /\ notices = [i \in Slots |->
           IF i = 1 THEN [present |-> TRUE, deleted |-> FALSE, pdfFile |-> EarlierPdf("n0")]
           ELSE NoDoc]
    /\ submissions = [i \in Slots |->
           IF i = 1 THEN [present |-> TRUE, deleted |-> FALSE, pdfFile |-> EarlierPdf("s0")]
           ELSE NoDoc]
    /\ gallery = [i \in Slots |-> IF i = 1 THEN EarlierImage ELSE NoImage]
    /\ nreq = 0
    /\ res = NoReq
    /\ log = <<>>

Init == (ServerInit \/ PopulatedInit) /\ ClientIdle /\ ProcInit

Files == UploadFiles \cup {NoUpload}

ImageOrders ==
    {u \in SUBSET [id : Slots, order : NewOrders] : Cardinality(u) <= 2}

\* The handlers the controllers export, each called with a request, and the
\* awaited calls settling. What the routers make of a path is the subject of
\* GalleryRoutes below: there PUT /reorder reaches updateImage with the id
\* "reorder", the request updateImage(CastId, o) here.
Requests ==
    \/ \E f \in BOOLEAN, file \in Files : createNotice(f, file)
    \/ \E id \in Slots, file \in Files : updateNotice(id, file)
    \/ \E id \in Slots : deleteNotice(id)
    \/ \E f \in BOOLEAN, file \in Files : submitFormWithFile(f, file)
    \/ \E id \in Slots : deleteSubmission(id)
    \/ \E f \in BOOLEAN : submitForm(f)
    \/ \E f \in BOOLEAN, file \in Files : uploadImage(f, file)
    \/ \E id \in Slots \cup {CastId}, o \in NewOrders \cup {NoOrder} : updateImage(id, o)
    \/ \E a \in BOOLEAN, u \in ImageOrders : reorderImages(a, u)
    \/ \E id \in Slots : deleteImage(id)

Settles ==
    \/ \E q \in Reqs, ok \in BOOLEAN : findSettles(q, ok)
    \/ \E q \in Reqs, d \in BOOLEAN : destroySettles(q, d)
    \/ \E q \in Reqs, r \in PutReplies : putSettles(q, r)
    \/ \E q \in Reqs, ok \in BOOLEAN : orderSettles(q, ok)
    \/ \E q \in Reqs, s \in BOOLEAN : saveSettles(q, s)
    \/ \E q \in Reqs, ok \in BOOLEAN : removeSettles(q, ok)
    \/ \E q \in Reqs, ok \in BOOLEAN : \E u \in inflight[q].updates : updateSettles(q, u, ok)

Next == Requests \/ Settles

Spec == Init /\ [][Next]_vars

\* the delete requests alone
DeleteRequests ==
    \/ \E id \in Slots : deleteNotice(id)
    \/ \E id \in Slots : deleteSubmission(id)
    \/ \E id \in Slots : deleteImage(id)

DeleteSettles ==
    \/ \E q \in Reqs, ok \in BOOLEAN : findSettles(q, ok)
    \/ \E q \in Reqs, d \in BOOLEAN : destroySettles(q, d)
    \/ \E q \in Reqs, ok \in BOOLEAN : removeSettles(q, ok)

SpecDeletes == Init /\ [][DeleteRequests \/ DeleteSettles]_vars

\* the requests that reach a put: valid fields and a file, a PDF for notices
\* and submissions and an image for the gallery
PdfUpload == CHOOSE f \in UploadFiles : f.mimetype = PdfMime
ImageUpload == CHOOSE f \in UploadFiles : f.mimetype = JpegMime

PutRequests ==
    \/ createNotice(TRUE, PdfUpload)
    \/ \E id \in Slots : updateNotice(id, PdfUpload)
    \/ submitFormWithFile(TRUE, PdfUpload)
    \/ uploadImage(TRUE, ImageUpload)

PutSettles ==
    \/ \E q \in Reqs, ok \in BOOLEAN : findSettles(q, ok)
    \/ \E q \in Reqs, d \in BOOLEAN : destroySettles(q, d)
    \/ \E q \in Reqs, r \in PutReplies : putSettles(q, r)
    \/ \E q \in Reqs, ok \in BOOLEAN : orderSettles(q, ok)
    \/ \E q \in Reqs, s \in BOOLEAN : saveSettles(q, s)

SpecPuts == Init /\ [][PutRequests \/ PutSettles]_vars

----------------------------------------------------------------------------
(* The read path: the inputs *)

StoredId == <<"jamalpur-chamber", "/", "id1">>
CloudImg == DeliveryUrl("image", StoredId, PdfExt)
CloudRaw == DeliveryUrl("raw", StoredId, PdfExt)
CloudVideo == DeliveryUrl("video", StoredId, PdfExt)
CloudRawAttach == CloudRaw \o <<"?", "fl_attachment">>
\* the same delivery path behind a host name of the site's own
MirrorImg == <<"https://", "files.example.org">> \o ImageSeg \o StoredId \o PdfExt
DataUri == <<"data:", "application/", "pdf", ";base64,", "JVBERi0x">>

Descriptors ==
    [given : {TRUE},
     url : {<<>>, CloudImg, CloudRaw, CloudVideo, CloudRawAttach, MirrorImg},
     publicId : {<<>>, StoredId \o PdfExt},
     filename : {<<>>, <<"o", "l", "d">> \o PdfExt},
     fileId : {<<>>, <<"1", "2", "3">>},
     data : {<<>>, DataUri},
     originalName : {<<>>, <<"r">> \o PdfExt, <<"r">>},
     name : {<<>>, <<" ", "a", ":", "b">>},
     mimetype : {<<>>, PdfMime, JpegMime}]

\* download(undefined): no descriptor at all
NoDescriptor ==
    [given |-> FALSE, url |-> <<>>, publicId |-> <<>>, filename |-> <<>>, fileId |-> <<>>,
     data |-> <<>>, originalName |-> <<>>, name |-> <<>>, mimetype |-> <<>>]

\* what the network answers to the GET: a rejected promise, or a response with
\* a status; and what response.blob() gives then: a rejected promise (the body
\* stream failed), or the blob with its reported type and its bytes
NoBlob == [type |-> <<>>, bytes |-> <<>>]
PdfBytes == <<"%", "P", "D", "F", "-">>
HtmlBytes == <<"<", "h", "t", "m", "l">>
ShortBytes == <<"%", "P">>
Blobs == [type : {<<>>, PdfMime, OctetMime, HtmlMime}, bytes : {<<>>, PdfBytes, HtmlBytes, ShortBytes}]
FetchOutcomes ==
    {[rejected |-> TRUE, status |-> 0]}
    \cup [rejected : {FALSE}, status : {200, 204, 300, 404, 500}]
BodyOutcomes ==
    {[rejected |-> TRUE, blob |-> NoBlob]} \cup [rejected : {FALSE}, blob : Blobs]

\* where the host may fail while the save action is set up
HostFailures == {"none", "createObjectURL", "click"}
\* what window.open does: a window, null (blocked), or an exception
OpenOutcomes == {"window", "null", "throws"}

----------------------------------------------------------------------------
(* The read path: one call of download, view or print *)

Calls == 1..MaxCalls

NoSave == [name |-> <<>>, type |-> <<>>, href |-> "none"]
NoRequest == [method |-> "none", mode |-> Undef, cache |-> Undef, credentials |-> Undef]
IdleCall ==
    [pc |-> "idle", op |-> "none", desc |-> NoDescriptor, strategy |-> "none",
     fetched |-> <<>>, opened |-> <<>>, status |-> 0, blob |-> NoBlob,
     alerts |-> <<>>, warned |-> FALSE, request |-> NoRequest, deliver |-> "none", filename |-> <<>>, objId |-> 0, objUrl |-> "none", link |-> "none",
     save |-> NoSave, timer |-> FALSE, ret |-> "none"]

Alert(prefix, message, status) == [prefix |-> prefix, message |-> message, status |-> status]

responseOkBelow500(status) == status >= 200 /\ status <= 499

\* response.ok
responseOk(status) == status >= 200 /\ status <= 299

isEmptyNullOnly(blob) == FALSE

\* !blob || blob.size === 0
isEmpty(blob) == Len(blob.bytes) = 0

\* firstBytes.startsWith('%PDF') over blob.slice(0, 4)
hasPdfHeader(blob) == Len(blob.bytes) >= 4 /\ SubSeq(blob.bytes, 1, 4) = <<"%", "P", "D", "F">>

\* the blob handed to _downloadBlob
finalBlob(pdfFile, blob) ==
    IF expectPdf(pdfFile) /\ ~(blob.type = PdfMime \/ blob.type = OctetMime \/ blob.type = <<>>)
    THEN [blob EXCEPT !.type = PdfMime]
    ELSE blob

downloadBlobSwallows(call, blob, filename, hostFail) ==
    LET entered == [call EXCEPT !.deliver = "entered", !.filename = filename]
        failed(c, message) ==
            [c EXCEPT !.alerts = @ \o <<Alert("Failed to download PDF: ", message, 0)>>,
                      !.ret = "returned"]
    IN IF isEmpty(blob) THEN failed(entered, "Invalid blob: file is empty")
       ELSE IF hostFail = "createObjectURL" THEN failed(entered, "host error")
       ELSE IF hostFail = "click"
       THEN failed([entered EXCEPT !.objUrl = "created", !.link = "attached"], "host error")
       ELSE [entered EXCEPT !.objUrl = "created", !.link = "clicked", !.timer = TRUE,
                            !.save = [name |-> BlobFilename(blob, filename),
                                      type |-> blob.type, href |-> "objectURL"],
                            !.ret = "returned"]

\* PDFHandler._downloadBlob: the call record after it returned or threw
\* (threw is told by ret: "threw" until the caller's catch turns it into false)
downloadBlob(call, blob, filename, hostFail) ==
    LET entered == [call EXCEPT !.deliver = "entered", !.filename = filename]
        failed(c, message) ==
            [c EXCEPT !.alerts = @ \o <<Alert("Failed to download PDF: ", message, 0)>>,
                      !.ret = "threw"]
    IN IF isEmpty(blob) THEN failed(entered, "Invalid blob: file is empty")
       ELSE IF hostFail = "createObjectURL" THEN failed(entered, "host error")
       ELSE IF hostFail = "click"
       THEN failed([entered EXCEPT !.objUrl = "created", !.link = "attached"], "host error")
       ELSE [entered EXCEPT !.objUrl = "created", !.link = "clicked", !.timer = TRUE,
                            !.save = [name |-> BlobFilename(blob, filename),
                                      type |-> blob.type, href |-> "objectURL"],
                            !.ret = "returned"]

\* the catch block of _downloadFromUrl and _downloadFromServer
catchDownload(call, message, status) ==
    [call EXCEPT !.alerts = @ \o <<Alert("PDF download failed: ", message, status)>>,
                 !.ret = "false", !.pc = "done"]

\* _downloadFromUrl and _downloadFromServer when their fetch has settled: the
\* catch block, or on to await response.blob()
afterFetch(call, out) ==
    LET answered == [call EXCEPT !.status = out.status]
    IN IF out.rejected THEN catchDownload(call, "Failed to fetch", 0)
       ELSE IF ~responseOk(out.status)
       THEN catchDownload(answered, "HTTP error! status: ", out.status)
       ELSE [answered EXCEPT !.pc = "reading"]

\* this._downloadBlob(finalBlob, filename); return true, or the catch block
\* when _downloadBlob threw
deliver(call, blob, hostFail) ==
    LET delivered == downloadBlob(call, blob, getFilename(call.desc), hostFail)
    IN IF delivered.ret = "threw"
       THEN catchDownload(delivered, delivered.alerts[Len(delivered.alerts)].message, 0)
       ELSE [delivered EXCEPT !.ret = "true", !.pc = "done"]

\* ... when response.blob() has settled: the catch block, or on to await
\* firstChunk.arrayBuffer() when a PDF is expected, or the delivery
afterBlob(call, body, hostFail) ==
    LET read == [call EXCEPT !.blob = body.blob]
    IN IF body.rejected THEN catchDownload(call, "body stream error", 0)
       ELSE IF isEmpty(body.blob)
       THEN catchDownload(read, "Downloaded file is empty", 0)
       ELSE IF expectPdf(call.desc) THEN [read EXCEPT !.pc = "checking"]
       ELSE deliver(read, body.blob, hostFail)

afterHeaderStrict(call, hostFail) ==
    LET got == [call EXCEPT !.warned = ~hasPdfHeader(call.blob)]
    IN IF got.warned THEN catchDownload(got, "File is not a valid PDF", 0)
       ELSE IF finalBlob(call.desc, call.blob) # call.blob
       THEN [got EXCEPT !.pc = "normalizing"]
       ELSE deliver(got, call.blob, hostFail)

\* ... when firstChunk.arrayBuffer() has settled: a header other than %PDF is
\* warned about; on to await blob.arrayBuffer() when the type is to be
\* replaced, or the delivery
afterHeader(call, hostFail) ==
    LET got == [call EXCEPT !.warned = ~hasPdfHeader(call.blob)]
    IN IF finalBlob(call.desc, call.blob) # call.blob
       THEN [got EXCEPT !.pc = "normalizing"]
       ELSE deliver(got, call.blob, hostFail)

\* ... when blob.arrayBuffer() has settled: the blob is rebuilt with the PDF
\* type and delivered
afterBuffer(call, hostFail) == deliver(call, finalBlob(call.desc, call.blob), hostFail)

\* PDFHandler._downloadFromDataURL
downloadFromDataURL(call, hostFail) ==
    IF hostFail = "click"
    THEN [call EXCEPT !.link = "attached", !.ret = "false", !.pc = "done"]
    ELSE [call EXCEPT !.link = "clicked", !.timer = TRUE,
                      !.save = [name |-> DataUrlFilename(call.desc),
                                type |-> <<>>, href |-> "data"],
                      !.ret = "true", !.pc = "done"]

FetchRequestDefaultCredentials(strategy) ==
    [method |-> "GET", mode |-> IF strategy = "remote" THEN "cors" ELSE Undef,
     cache |-> "no-cache", credentials |-> Undef]

\* the options object given to fetch by _downloadFromUrl and _downloadFromServer
FetchRequest(strategy) ==
    [method |-> "GET", mode |-> IF strategy = "remote" THEN "cors" ELSE Undef,
     cache |-> "no-cache", credentials |-> "omit"]

\* PDFHandler.download up to its first suspension: the fetch is issued, or the
\* call is over
download(c, pdfFile, hostFail) ==
    LET strategy == downloadStrategy(pdfFile)
        call == [IdleCall EXCEPT !.op = "download", !.desc = pdfFile, !.strategy = strategy]
    IN /\ c \in active
       /\ dl[c].pc = "idle"
       /\ strategy \in {"remote", "legacy"} => hostFail = "none"
       /\ strategy = "invalid" => hostFail = "none"
       /\ dl' = [dl EXCEPT ![c] =
              CASE strategy = "remote" ->
                     [call EXCEPT !.pc = "fetching", !.fetched = <<RemoteFetchUrl(pdfFile)>>,
                                  !.request = FetchRequest(strategy)]
                [] strategy = "legacy" ->
                     [call EXCEPT !.pc = "fetching", !.fetched = <<LegacyUrl(pdfFile)>>,
                                  !.request = FetchRequest(strategy)]
                [] strategy = "inline" -> downloadFromDataURL(call, hostFail)
                [] OTHER -> [call EXCEPT !.ret = "false", !.pc = "done"]]
       /\ UNCHANGED active

\* window.URL.createObjectURL hands out a URL no earlier call of it returned:
\* the object URLs are numbered in the order of their creation
NextObjectUrl == 1 + Cardinality({k \in Calls : dl[k].objId # 0})
Minted(call) == IF call.objUrl = "created" THEN [call EXCEPT !.objId = NextObjectUrl] ELSE call

\* await fetch(...) settles
fetchSettles(c, out) ==
    /\ dl[c].pc = "fetching"
    /\ dl' = [dl EXCEPT ![c] = afterFetch(dl[c], out)]
    /\ UNCHANGED active

\* await response.blob() settles; a 204 answer has no body. The host can fail
\* only in a step that reaches _downloadBlob
blobSettles(c, body, hostFail) ==
    /\ dl[c].pc = "reading"
    /\ (dl[c].status = 204 /\ ~body.rejected) => body.blob.bytes = <<>>
    /\ hostFail # "none" =>
          (~body.rejected /\ ~isEmpty(body.blob) /\ ~expectPdf(dl[c].desc))
    /\ dl' = [dl EXCEPT ![c] = Minted(afterBlob(dl[c], body, hostFail))]
    /\ UNCHANGED active

\* await firstChunk.arrayBuffer() settles
headerSettles(c, hostFail) ==
    /\ dl[c].pc = "checking"
    /\ hostFail # "none" => finalBlob(dl[c].desc, dl[c].blob) = dl[c].blob
    /\ dl' = [dl EXCEPT ![c] = Minted(afterHeader(dl[c], hostFail))]
    /\ UNCHANGED active

\* await blob.arrayBuffer() settles
bufferSettles(c, hostFail) ==
    /\ dl[c].pc = "normalizing"
    /\ dl' = [dl EXCEPT ![c] = Minted(afterBuffer(dl[c], hostFail))]
    /\ UNCHANGED active

\* what the host can do to the timer callback: document.body.removeChild(link)
\* throws when the link is no child of the body any more
CleanupFailures == {"none", "removeChild"}

\* the callback revokes the URL a field shared by all calls last held
cleanupLatest(c, hostFail) ==
    LET latest == {k \in Calls : dl[k].objId # 0 /\ \A j \in Calls : dl[j].objId <= dl[k].objId}
    IN /\ dl[c].timer
       /\ dl' = IF hostFail = "removeChild"
                THEN [dl EXCEPT ![c].timer = FALSE]
                ELSE [k \in Calls |->
                        LET mine == IF k = c
                                    THEN [dl[k] EXCEPT !.timer = FALSE, !.link = "removed"]
                                    ELSE dl[k]
                        IN IF k \in latest /\ mine.objUrl = "created"
                           THEN [mine EXCEPT !.objUrl = "revoked"] ELSE mine]
       /\ UNCHANGED active

\* The setTimeout callback of _downloadBlob: the link is removed and then the
\* object URL revoked, both inside one try; when removeChild throws, the catch
\* only warns and revokeObjectURL is not reached. The callback of
\* _downloadFromDataURL removes the link, and leaves it when removeChild throws.
cleanup(c, hostFail) ==
    /\ dl[c].timer
    /\ dl' = IF hostFail = "removeChild"
             THEN [dl EXCEPT ![c].timer = FALSE]
             ELSE [dl EXCEPT ![c].timer = FALSE, ![c].link = "removed",
                             ![c].objUrl = IF @ = "created" THEN "revoked" ELSE @]
    /\ UNCHANGED active

\* PDFHandler.view
view(c, pdfFile, open) ==
    LET strategy == viewStrategy(pdfFile)
        call == [IdleCall EXCEPT !.op = "view", !.desc = pdfFile, !.strategy = strategy,
                                 !.pc = "done"]
        url == OpenUrl(strategy, pdfFile)
    IN /\ c \in active
       /\ dl[c].pc = "idle"
       /\ strategy = "invalid" => open = "window"
       /\ dl' = [dl EXCEPT ![c] =
              IF strategy = "invalid" THEN [call EXCEPT !.ret = "false"]
              ELSE IF open = "throws" THEN [call EXCEPT !.ret = "false"]
              ELSE [call EXCEPT !.opened = <<url>>, !.ret = "true"]]
       /\ UNCHANGED active

\* PDFHandler.print
print(c, pdfFile, open) ==
    LET strategy == printStrategy(pdfFile)
        call == [IdleCall EXCEPT !.op = "print", !.desc = pdfFile, !.strategy = strategy,
                                 !.pc = "done"]
        pdfUrl == OpenUrl(strategy, pdfFile)
    IN /\ c \in active
       /\ dl[c].pc = "idle"
       /\ strategy = "invalid" => open = "window"
       /\ dl' = [dl EXCEPT ![c] =
              IF strategy = "invalid" THEN [call EXCEPT !.ret = "false"]
              ELSE IF open = "throws" THEN [call EXCEPT !.ret = "false"]
              ELSE IF open = "null" THEN [call EXCEPT !.opened = <<pdfUrl>>, !.ret = "false"]
              ELSE [call EXCEPT !.opened = <<pdfUrl>>, !.ret = "true"]]
       /\ UNCHANGED active

\* a caller asks PDFHandler.isValid about a descriptor
callIsValid(c, pdfFile) ==
    /\ c \in active
    /\ dl[c].pc = "idle"
    /\ dl' = [dl EXCEPT ![c] =
           [IdleCall EXCEPT !.op = "isValid", !.desc = pdfFile, !.pc = "done",
                            !.ret = IF isValid(pdfFile) THEN "true" ELSE "false"]]
    /\ UNCHANGED active

AllDescriptors == Descriptors \cup {NoDescriptor}

ReadInit ==
    /\ ServerInit
    /\ ProcInit
    /\ dl = [c \in Calls |-> IdleCall]
    /\ active = {1}

\* the calls that can start, and those waiting at an await
Idle == {c \in active : dl[c].pc = "idle"}
Fetching == {c \in active : dl[c].pc = "fetching"}
Waiting == {c \in active : dl[c].pc \in {"reading", "checking", "normalizing"}}

ReadNext ==
    \/ \E c \in Idle, d \in AllDescriptors, h \in HostFailures :
          download(c, d, h) /\ UNCHANGED <<serverVars, procVars>>
    \/ \E c \in Fetching, out \in FetchOutcomes :
          fetchSettles(c, out) /\ UNCHANGED <<serverVars, procVars>>
    \/ \E c \in Waiting, body \in BodyOutcomes, h \in HostFailures :
          blobSettles(c, body, h) /\ UNCHANGED <<serverVars, procVars>>
    \/ \E c \in Waiting, h \in HostFailures :
          headerSettles(c, h) /\ UNCHANGED <<serverVars, procVars>>
    \/ \E c \in Waiting, h \in HostFailures :
          bufferSettles(c, h) /\ UNCHANGED <<serverVars, procVars>>
    \/ \E c \in active, h \in CleanupFailures :
          cleanup(c, h) /\ UNCHANGED <<serverVars, procVars>>
    \/ \E c \in Idle, d \in AllDescriptors, o \in OpenOutcomes :
          view(c, d, o) /\ UNCHANGED <<serverVars, procVars>>
    \/ \E c \in Idle, d \in AllDescriptors, o \in OpenOutcomes :
          print(c, d, o) /\ UNCHANGED <<serverVars, procVars>>
    \/ \E c \in Idle, d \in AllDescriptors :
          callIsValid(c, d) /\ UNCHANGED <<serverVars, procVars>>

SpecRead == ReadInit /\ [][ReadNext]_vars

\* a timer set with setTimeout fires: the callback is not postponed for ever
TimersFire == WF_vars(\E c \in active, h \in CleanupFailures :
          cleanup(c, h) /\ UNCHANGED <<serverVars, procVars>>)
SpecReadFair == SpecRead /\ TimersFire

----------------------------------------------------------------------------
(* Concurrent downloads of one remote artifact: the calls interleave where
   they await their fetch *)

SharedPdf ==
    [NoDescriptor EXCEPT !.given = TRUE, !.url = CloudImg, !.publicId = StoredId \o PdfExt,
                         !.originalName = <<"r">> \o PdfExt, !.mimetype = PdfMime]

ConcurrentInit ==
    /\ ServerInit
    /\ ProcInit
    /\ dl = [c \in Calls |-> IdleCall]
    /\ active = Calls

\* the answers the calls may get: a network error, a 404, and 200 with a body
\* that fails, or is read with a PDF or an HTML type and any bytes
ConcurrentOutcomes == {o \in FetchOutcomes : o.rejected \/ o.status \in {200, 404}}
ConcurrentBodies ==
    {b \in BodyOutcomes : b.rejected \/ b.blob.type \in {PdfMime, HtmlMime}}

ConcurrentNext ==
    \/ \E c \in Idle : download(c, SharedPdf, "none") /\ UNCHANGED <<serverVars, procVars>>
    \/ \E c \in Idle, o \in OpenOutcomes :
          view(c, SharedPdf, o) /\ UNCHANGED <<serverVars, procVars>>
    \/ \E c \in Fetching, out \in ConcurrentOutcomes :
          fetchSettles(c, out) /\ UNCHANGED <<serverVars, procVars>>
    \/ \E c \in Waiting, body \in ConcurrentBodies :
          blobSettles(c, body, "none") /\ UNCHANGED <<serverVars, procVars>>
    \/ \E c \in Waiting, h \in HostFailures :
          headerSettles(c, h) /\ UNCHANGED <<serverVars, procVars>>
    \/ \E c \in Waiting, h \in HostFailures :
          bufferSettles(c, h) /\ UNCHANGED <<serverVars, procVars>>
    \/ \E c \in active, h \in CleanupFailures :
          cleanup(c, h) /\ UNCHANGED <<serverVars, procVars>>

SpecConcurrent == ConcurrentInit /\ [][ConcurrentNext]_vars

----------------------------------------------------------------------------
(* The file names on their own: _downloadBlob and _downloadFromDataURL given
   any name *)

NameAlphabet == {" ", "a", ".", "/", "?", "p", "d", "f"}
Names == UNION {[1..k -> NameAlphabet] : k \in 0..MaxNameLen}
NameBlobTypes == {<<>>, PdfMime, OctetMime}
\* an inline descriptor with that original name
NameDescriptor(n, mimetype) ==
    [NoDescriptor EXCEPT !.given = TRUE, !.data = DataUri, !.originalName = n,
                         !.mimetype = mimetype]

\* _downloadBlob(blob, filename) called with a payload and a name
callDownloadBlob(c, blob, filename) ==
    LET call == [IdleCall EXCEPT !.op = "_downloadBlob", !.blob = blob]
        after == downloadBlob(call, blob, filename, "none")
    IN /\ c \in active
       /\ dl[c].pc = "idle"
       /\ dl' = [dl EXCEPT ![c] = Minted([after EXCEPT !.pc = "done"])]
       /\ UNCHANGED active

NamesNext ==
    \/ \E c \in Idle, n \in Names, t \in NameBlobTypes :
          callDownloadBlob(c, [type |-> t, bytes |-> PdfBytes], n) /\ UNCHANGED <<serverVars, procVars>>
    \/ \E c \in Idle, n \in Names, m \in {<<>>, PdfMime} :
          download(c, NameDescriptor(n, m), "none") /\ UNCHANGED <<serverVars, procVars>>
    \/ \E c \in active, h \in CleanupFailures :
          cleanup(c, h) /\ UNCHANGED <<serverVars, procVars>>

SpecNames == ReadInit /\ [][NamesNext]_vars

----------------------------------------------------------------------------
(* The helper on its own: uploadToCloudinary called with any options object *)

\* uploadToCloudinary(filePath, options) is called with a staged file and
\* runs up to await cloudinary.uploader.upload(filePath, baseConfig)
callUpload(options, file) ==
    LET q == nreq + 1
    IN /\ file # NoUpload
       /\ Stage(file)
       /\ disk' = Staged(file)
       /\ UNCHANGED <<store, notices, submissions, gallery, env, clientVars>>
       /\ Await(q, [IdleRequest EXCEPT !.handler = "uploadToCloudinary", !.file = file,
                                       !.path = StagedPath(file), !.options = options,
                                       !.pc = "uploading"])

\* the put settles: the helper unlinks the staged file and returns the result,
\* or unlinks it and throws
uploadSettles(q, reply) ==
    LET r == inflight[q]
        up == uploadToCloudinary(r.file, r.options, reply, q)
    IN /\ r.pc = "uploading"
       /\ reply \in RepliesFor(up.config)
       /\ disk' = Unlink(disk, r.path)
       /\ store' = StoreAfterPut(store, up)
       /\ UNCHANGED <<notices, submissions, gallery, nreq, env, clientVars>>
       /\ Answer(q, r, <<PutEntry(up)>>, {}, IF up.threw THEN 500 ELSE 200,
                 IF up.threw THEN "up" ELSE "ok", FALSE)

HelperNext ==
    \/ \E options \in AllOptions, file \in UploadFiles : callUpload(options, file)
    \/ \E q \in Reqs, r \in PutReplies : uploadSettles(q, r)

SpecHelper == Init /\ [][HelperNext]_vars

----------------------------------------------------------------------------
(* Claims about the write path *)

UploadHandlers == {"createNotice", "updateNotice", "submitFormWithFile", "uploadImage"}
PdfHandlers == {"createNotice", "updateNotice", "submitFormWithFile"}
Puts == {i \in 1..Len(log) : log[i].op = "put"}
Destroys == {i \in 1..Len(log) : log[i].op = "destroy"}

\* C1: once a handler that received a staged upload file has responded, the
\* staged file no longer exists on disk, whatever the exit path
C1_StagedFileRemoved ==
    (res.handler \in UploadHandlers /\ res.staged # NoPath) => res.staged \notin disk

\* the exit paths on which the staged file is in fact left behind
C1_LeakOnEarlyReturn ==
    /\ res.handler \in UploadHandlers
    /\ res.staged # NoPath
    /\ res.status \in {400, 404}
    /\ res.staged \in disk

\* C2: in updateNotice the old artifact is destroyed only after the put of the
\* new one succeeded; after a failed put the old artifact is still in the
\* store and the saved notice still references it
C2_DeleteOnlyAfterPut ==
    res.handler = "updateNotice" =>
        /\ \A i \in Destroys : \E j \in Puts : j < i /\ log[j].ok
        /\ \A d \in res.doc :
              ((\E j \in Puts : ~log[j].ok) /\ notices[d].pdfFile.publicId # <<>>) =>
                  \E a \in store : a.id = notices[d].pdfFile.publicId

\* C3: the url persisted for a PDF never contains the image-delivery segment
C3_PersistedPdfUrlNotImage ==
    \A i \in Slots :
        /\ (notices[i].present /\ notices[i].pdfFile.mimetype = PdfMime)
              => ~Includes(notices[i].pdfFile.url, ImageSeg)
        /\ (submissions[i].present /\ submissions[i].pdfFile.mimetype = PdfMime)
              => ~Includes(submissions[i].pdfFile.url, ImageSeg)

\* C4: the configuration put to the store carries quality and fetch_format
\* when the resource type is image and neither of them when it is raw
C4_ImageOnlyOptions ==
    \A i \in Puts :
        /\ log[i].resource_type = "image"
              => (log[i].quality # Undef /\ log[i].fetch_format # Undef)
        /\ log[i].resource_type = "raw"
              => (log[i].quality = Undef /\ log[i].fetch_format = Undef)

\* C5: a PDF upload through the notice and form controllers is put with the
\* raw resource type and without the quality options
C5_PdfPutAsRaw ==
    (res.handler \in PdfHandlers /\ res.mimetype = PdfMime) =>
        \A i \in Puts :
            /\ log[i].resource_type = "raw"
            /\ log[i].quality = Undef
            /\ log[i].fetch_format = Undef

----------------------------------------------------------------------------
(* Claims about the read path *)

Started == {c \in Calls : dl[c].pc # "idle"}
\* the calls of the three retrieval operations
Retrievals == {c \in Started : dl[c].op \in {"download", "view", "print"}}
Range(q) == {q[i] : i \in 1..Len(q)}
\* every URL a call fetched or handed to window.open
UrlsUsed(c) == Range(dl[c].fetched) \cup Range(dl[c].opened)

\* the order the specification fixes: remote, then legacy, then inline
FixedOrder(d) ==
    IF d.url # <<>> THEN "remote"
    ELSE IF d.filename # <<>> \/ d.fileId # <<>> THEN "legacy"
    ELSE IF d.data # <<>> THEN "inline"
    ELSE "invalid"

\* C6: download, view and print take the strategy in the fixed order remote,
\* legacy, inline, and agree with each other on every descriptor
C6_FixedStrategyOrder ==
    \A c \in Retrievals :
        dl[c].desc.given =>
            /\ dl[c].strategy = FixedOrder(dl[c].desc)
            /\ downloadStrategy(dl[c].desc) = viewStrategy(dl[c].desc)
            /\ viewStrategy(dl[c].desc) = printStrategy(dl[c].desc)

C6_RemoteWinsOverLegacy ==
    \E c \in Started :
        /\ dl[c].op = "view"
        /\ dl[c].desc.url # <<>>
        /\ dl[c].desc.filename # <<>>
        /\ dl[c].desc.data # <<>>
        /\ dl[c].strategy = "remote"
        /\ dl[c].opened = <<dl[c].desc.url>>

HasBothLegacyFields(d) == d.given /\ d.url = <<>> /\ d.filename # <<>> /\ d.fileId # <<>>

\* C7 as claimed: with a file name and a file id and no url, the legacy URL is
\* <base>/files/<fileId>
C7_LegacyUrlFromFileId ==
    \A c \in Retrievals :
        HasBothLegacyFields(dl[c].desc) =>
            /\ dl[c].strategy = "legacy"
            /\ \A u \in UrlsUsed(c) : u = ApiBase \o <<"/", "files", "/">> \o dl[c].desc.fileId

\* C7 as amended: with no url the legacy strategy is selected and the URL is
\* <base>/files/<filename>; the file id is used only when there is no file name
C7_LegacyUrlFromFileName ==
    \A c \in Retrievals :
        (dl[c].desc.given /\ dl[c].desc.url = <<>>
            /\ (dl[c].desc.filename # <<>> \/ dl[c].desc.fileId # <<>>)) =>
            /\ dl[c].strategy = "legacy"
            /\ \A u \in UrlsUsed(c) :
                  u = ApiBase \o <<"/", "files", "/">> \o
                        (IF dl[c].desc.filename # <<>> THEN dl[c].desc.filename
                         ELSE dl[c].desc.fileId)

C7_OldPdfFetched ==
    \E c \in Started :
        /\ dl[c].op = "download"
        /\ HasBothLegacyFields(dl[c].desc)
        /\ dl[c].desc.filename = <<"o", "l", "d", ".", "p", "d", "f">>
        /\ dl[c].desc.fileId = <<"1", "2", "3">>
        /\ dl[c].fetched = <<ApiBase \o <<"/", "files", "/", "o", "l", "d", ".", "p", "d", "f">>>>

\* C8: a remote PDF is never fetched or opened through a URL that contains the
\* image-delivery segment
C8_RemotePdfNeverImageUrl ==
    \A c \in Started :
        (dl[c].strategy = "remote" /\ expectPdf(dl[c].desc)) =>
            \A u \in UrlsUsed(c) : ~Includes(u, ImageSeg)

\* C9: a non-2xx answer makes download return false, the alert carries the
\* status code, and no object URL is created
C9_NonOkStatusFails ==
    \A c \in Started :
        (dl[c].op = "download" /\ dl[c].status # 0
            /\ ~(dl[c].status >= 200 /\ dl[c].status <= 299)) =>
            /\ dl[c].pc = "done"
            /\ dl[c].ret = "false"
            /\ \E i \in 1..Len(dl[c].alerts) : dl[c].alerts[i].status = dl[c].status
            /\ dl[c].objUrl = "none"

C9_NotFoundReported ==
    \E c \in Started :
        /\ dl[c].op = "download"
        /\ dl[c].strategy = "remote"
        /\ dl[c].status = 404
        /\ dl[c].ret = "false"
        /\ dl[c].alerts = <<Alert("PDF download failed: ", "HTTP error! status: ", 404)>>

\* C10: a 2xx answer with an empty body makes download return false without
\* reaching _downloadBlob
C10_EmptyBodyFails ==
    \A c \in Started :
        (dl[c].op = "download" /\ dl[c].pc = "done"
            /\ dl[c].status >= 200 /\ dl[c].status <= 299 /\ Len(dl[c].blob.bytes) = 0) =>
            /\ dl[c].ret = "false"
            /\ dl[c].deliver = "none"
            /\ dl[c].objUrl = "none"
            /\ dl[c].link = "none"

C10_EmptyBodySeen ==
    \E c \in Started :
        /\ dl[c].op = "download"
        /\ dl[c].status = 200
        /\ dl[c].blob.bytes = <<>>
        /\ dl[c].ret = "false"
        /\ dl[c].alerts = <<Alert("PDF download failed: ", "Downloaded file is empty", 0)>>

\* a descriptor that has only the inline payload
InlineOnly(d) == d.given /\ d.url = <<>> /\ d.filename = <<>> /\ d.fileId = <<>> /\ d.data # <<>>
\* the save action was triggered: the link was clicked (and maybe removed since)
Clicked(c) == dl[c].link \in {"clicked", "removed"}

\* C11: for a descriptor with only an inline payload download issues no fetch
\* and creates no object URL; unless the host throws while the link is set up,
\* the save action is triggered on a link whose href is the payload itself and
\* download returns true
C11_InlineNoFetch ==
    \A c \in Started :
        (dl[c].op = "download" /\ InlineOnly(dl[c].desc)) =>
            /\ dl[c].pc = "done"
            /\ dl[c].strategy = "inline"
            /\ dl[c].fetched = <<>>
            /\ dl[c].status = 0
            /\ dl[c].objUrl = "none"
            /\ dl[c].alerts = <<>>
            /\ Clicked(c) <=> dl[c].ret = "true"
            /\ Clicked(c) => (dl[c].save.href = "data" /\ dl[c].save.name = DataUrlFilename(dl[c].desc))
            /\ dl[c].ret = "false" => dl[c].link \in {"none", "attached"}

C11_InlineSaved ==
    \E c \in Started :
        /\ dl[c].op = "download"
        /\ InlineOnly(dl[c].desc)
        /\ dl[c].desc.data = DataUri
        /\ dl[c].fetched = <<>>
        /\ dl[c].link = "clicked"
        /\ dl[c].save.href = "data"
        /\ dl[c].ret = "true"

\* one of the four retrieval fields of a descriptor is there
HasRetrievalField(d) ==
    d.given /\ (d.url # <<>> \/ d.filename # <<>> \/ d.fileId # <<>> \/ d.data # <<>>)

\* C12: isValid answers true iff one of url, filename, fileId, data is there;
\* without any of them (or without a descriptor) download, view and print
\* return false and fetch nothing, open no window and create no link or
\* object URL
C12_ValidIffField ==
    \A c \in Started :
        /\ dl[c].op = "isValid" => (dl[c].ret = "true" <=> HasRetrievalField(dl[c].desc))
        /\ (dl[c].op \in {"download", "view", "print"} /\ ~HasRetrievalField(dl[c].desc)) =>
              /\ dl[c].pc = "done"
              /\ dl[c].ret = "false"
              /\ dl[c].fetched = <<>>
              /\ dl[c].opened = <<>>
              /\ dl[c].objUrl = "none"
              /\ dl[c].link = "none"
              /\ ~dl[c].timer

C12_NamedButEmptyRejected ==
    \E c \in Started :
        /\ dl[c].op = "download"
        /\ dl[c].desc.given
        /\ dl[c].desc.originalName # <<>>
        /\ dl[c].desc.publicId # <<>>
        /\ ~HasRetrievalField(dl[c].desc)
        /\ dl[c].ret = "false"

DeleteHandlers == {"deleteNotice", "deleteSubmission", "deleteImage"}
\* the record a delete request named is still in its collection
StillPresent(handler, d) ==
    CASE handler = "deleteNotice" -> notices[d].present
      [] handler = "deleteSubmission" -> submissions[d].present
      [] handler = "deleteImage" -> gallery[d].present
      [] OTHER -> FALSE

\* C13: deleteFromCloudinary never throws, and a delete of a record that
\* exists, its database calls resolving, removes the record and answers with
\* success whether the destroy call to the store succeeded or failed
C13_DeleteSurvivesStoreFailure ==
    /\ \A i \in Slots, ok \in BOOLEAN :
          ~deleteFromCloudinary(notices[i].pdfFile.publicId, DefaultDeleteType, ok).threw
    /\ (res.handler \in DeleteHandlers /\ res.status # 404 /\ ~res.dbError) =>
          /\ res.status = 200
          /\ \A d \in res.doc : ~StillPresent(res.handler, d)

C13_DeletedThoughDestroyFailed ==
    /\ res.handler = "deleteNotice"
    /\ res.status = 200
    /\ \E i \in Destroys : ~log[i].ok
    /\ \A d \in res.doc : ~notices[d].present

FailedPuts(entries) == {i \in 1..Len(entries) : entries[i].op = "put" /\ ~entries[i].ok}
UploadFailureMessages ==
    {"Failed to upload PDF file", "Failed to upload new PDF file", "Failed to upload image"}

\* the step in which request q is answered
Responds(q) == inflight[q].pc # "done" /\ inflight'[q].pc = "done"

\* C14: a request whose put to the store failed is answered with the upload
\* error, its staged file is gone from the disk, and the step that answers it
\* changes no collection
C14_FailedPutPersistsNothing ==
    [][((\E q \in Reqs : Responds(q)) /\ res'.handler \in UploadHandlers
            /\ FailedPuts(log') # {}) =>
          /\ res'.status = 500
          /\ res'.message \in UploadFailureMessages
          /\ res'.staged # NoPath
          /\ res'.staged \notin disk'
          /\ notices' = notices
          /\ submissions' = submissions
          /\ gallery' = gallery]_vars

C14_UpdateRefusedAfterFailedPut ==
    /\ res.handler = "updateNotice"
    /\ res.status = 500
    /\ res.message = "Failed to upload new PDF file"
    /\ FailedPuts(log) # {}
    /\ res.staged # NoPath
    /\ res.staged \notin disk
    /\ \A d \in res.doc : notices[d].present /\ notices[d].pdfFile.publicId # <<>>

\* the calls whose fetched payload was handed to the host through an object URL
Delivered == {c \in Started : dl[c].op = "download" /\ Clicked(c) /\ dl[c].save.href = "objectURL"}

\* C15: when a PDF is expected and the fetched payload reports an empty type
\* or application/octet-stream, the payload delivered has the type
\* application/pdf
C15_PlaceholderTypeReconciled ==
    \A c \in Delivered :
        (expectPdf(dl[c].desc) /\ dl[c].blob.type \in {<<>>, OctetMime}) =>
            dl[c].save.type = PdfMime

\* a PDF was expected, the answer reported no type, and the payload was
\* delivered without one
C15_EmptyTypeDelivered ==
    \E c \in Delivered :
        /\ expectPdf(dl[c].desc)
        /\ dl[c].blob.type = <<>>
        /\ dl[c].save.type = <<>>
        /\ dl[c].ret = "true"

\* the host threw while _downloadBlob was setting up or triggering the save
HostThrew(c) == \E i \in 1..Len(dl[c].alerts) : dl[c].alerts[i].message = "host error"
StartsWithPdfSignature(bytes) == Len(bytes) >= 4 /\ SubSeq(bytes, 1, 4) = <<"%", "P", "D", "F">>

\* C16: when a PDF is expected and a non-empty 2xx payload does not start with
\* %PDF, the download only warns: the payload reaches _downloadBlob and, unless
\* the host throws there, the save action is triggered and download returns true
C16_HeaderMismatchOnlyWarns ==
    \A c \in Started :
        (dl[c].op = "download" /\ dl[c].pc = "done"
            /\ dl[c].status >= 200 /\ dl[c].status <= 299
            /\ dl[c].blob.bytes # <<>>
            /\ expectPdf(dl[c].desc)
            /\ ~StartsWithPdfSignature(dl[c].blob.bytes)) =>
            /\ dl[c].warned
            /\ dl[c].deliver = "entered"
            /\ ~HostThrew(c) =>
                  /\ dl[c].ret = "true"
                  /\ Clicked(c)
                  /\ dl[c].save.href = "objectURL"
                  /\ dl[c].alerts = <<>>

C16_HtmlBodySavedAsPdf ==
    \E c \in Started :
        /\ dl[c].op = "download"
        /\ expectPdf(dl[c].desc)
        /\ dl[c].status = 200
        /\ dl[c].blob.bytes = HtmlBytes
        /\ dl[c].warned
        /\ dl[c].link = "clicked"
        /\ dl[c].ret = "true"

\* the descriptor's name for display: the original name, else the fallback
\* name, else the legacy file name, else "document"
DisplayName(d) == Trim(Or(d.originalName, Or(d.name, Or(d.filename, DocumentName))))
\* the rule of the claim: the display name, illegal characters replaced, kept
\* when it ends in an extension and otherwise extended from the MIME type (the
\* descriptor's, else the payload's)
OfferedName(d, payloadType) ==
    LET n == ReplaceIllegal(DisplayName(d))
        ext == Or(ExtOfMime(Lower(d.mimetype)), ExtOfMime(Lower(payloadType)))
    IN IF HasExtension(n) THEN n ELSE n \o ext

\* C17 as claimed: in every delivery, inline included, the name offered to the
\* host is the original name when it ends in an extension and otherwise that
\* name plus the extension of the MIME type, nothing being added for an
\* unknown type
C17_NameFromOriginalAndMime ==
    \A c \in Started :
        (dl[c].op = "download" /\ Clicked(c)) =>
            dl[c].save.name = OfferedName(dl[c].desc, dl[c].save.type)

\* C17 as amended: the rule holds for remote and legacy deliveries; an inline
\* delivery offers the same name with .pdf appended unless it already ends in
\* .pdf
C17_InlineNameForcedToPdf ==
    \A c \in Started :
        (dl[c].op = "download" /\ Clicked(c)) =>
            LET n == OfferedName(dl[c].desc, dl[c].save.type)
            IN IF dl[c].save.href = "objectURL" THEN dl[c].save.name = n
               ELSE dl[c].save.name = (IF IsPdfName(n) THEN n ELSE n \o PdfExt)

C17_InlineJpegNamedPdf ==
    \E c \in Started :
        /\ dl[c].op = "download"
        /\ dl[c].strategy = "inline"
        /\ Clicked(c)
        /\ dl[c].desc.originalName = <<"r">>
        /\ dl[c].desc.mimetype = JpegMime
        /\ dl[c].save.name = <<"r", ".", "j", "p", "g", ".", "p", "d", "f">>

\* the sanitization step of each delivery, applied to a name
SanitizeForBlob(blob, n) == BlobFilename(blob, n)
SanitizeForDataUrl(d, n) == DataUrlFilename([d EXCEPT !.originalName = n])

\* C18: the name a delivery offers is a fixed point of its sanitization step,
\* holds none of the characters < > : " / \ | ? * and is not empty
C18_SanitizeIdempotent ==
    \A c \in Started :
        Clicked(c) =>
            /\ dl[c].save.name # <<>>
            /\ \A i \in 1..Len(dl[c].save.name) : dl[c].save.name[i] \notin IllegalChars
            /\ dl[c].op = "_downloadBlob" =>
                  SanitizeForBlob(dl[c].blob, dl[c].save.name) = dl[c].save.name
            /\ dl[c].op = "download" =>
                  SanitizeForDataUrl(dl[c].desc, dl[c].save.name) = dl[c].save.name

C18_TwoIllegalCharsReplaced ==
    \E c \in Started :
        /\ dl[c].op = "_downloadBlob"
        /\ Clicked(c)
        /\ dl[c].filename = <<"/", "a", "?">>
        /\ dl[c].save.name = <<"_", "a", "_">>

\* C19: a download that failed leaves no object URL of its own unrevoked
C19_NoHandleLeftOnFailure ==
    \A c \in Started :
        (dl[c].op = "download" /\ dl[c].pc = "done" /\ dl[c].ret = "false") =>
            dl[c].objUrl # "created"

\* the failure that leaves the handle: the host threw after createObjectURL,
\* and no cleanup is scheduled
C19_HandleLeftAfterClickFailed ==
    \E c \in Started :
        /\ dl[c].op = "download"
        /\ dl[c].ret = "false"
        /\ dl[c].objUrl = "created"
        /\ dl[c].link = "attached"
        /\ ~dl[c].timer

\* C20: an object URL whose link was clicked is revoked in the end, and the
\* step that revokes an object URL is the timer callback of the same call,
\* taken after the click
C20_RevokedAfterClick ==
    /\ \A c \in Calls :
          (dl[c].objUrl = "created" /\ dl[c].link = "clicked") ~> (dl[c].objUrl = "revoked")
    /\ [][\A c \in Calls :
            (dl[c].objUrl # "revoked" /\ dl'[c].objUrl = "revoked") =>
                /\ dl[c].objUrl = "created"
                /\ dl[c].link = "clicked"
                /\ dl[c].timer /\ ~dl'[c].timer]_vars

\* the timer callback has run, removeChild threw in it, and the object URL of
\* a download that returned true is left unrevoked
C20_HandleLeftAfterCleanup ==
    \E c \in Started :
        /\ dl[c].op = "download"
        /\ dl[c].ret = "true"
        /\ dl[c].save.href = "objectURL"
        /\ dl[c].objUrl = "created"
        /\ dl[c].link = "clicked"
        /\ ~dl[c].timer

\* a download reached the delivery and the host did not get to the click
SaveNotTriggered(c) ==
    /\ dl[c].op = "download"
    /\ dl[c].pc = "done"
    /\ dl[c].strategy = "inline" \/ dl[c].deliver = "entered"
    /\ ~Clicked(c)

\* C21: when the host fails to trigger the save action, download returns
\* false, whatever the strategy; it returns true only after the click
C21_HostFailureReported ==
    \A c \in Started :
        /\ SaveNotTriggered(c) => dl[c].ret = "false"
        /\ (dl[c].op = "download" /\ dl[c].ret = "true") => Clicked(c)

C21_ClickFailureReported ==
    \E c \in Started :
        /\ dl[c].strategy = "legacy"
        /\ SaveNotTriggered(c)
        /\ HostThrew(c)
        /\ dl[c].objUrl = "created"
        /\ dl[c].ret = "false"

\* the calls that created an object URL
Creators == {c \in Calls : dl[c].objUrl # "none"}

\* C22: concurrent downloads of one remote artifact each issue their own
\* single fetch, the object URLs they create are pairwise distinct, and an
\* object URL is revoked only in the timer step of the call that created it
C22_DownloadsIndependent ==
    /\ [](\A c \in Started :
            /\ dl[c].op = "download" => dl[c].fetched = <<RemoteFetchUrl(SharedPdf)>>
            /\ dl[c].op # "download" => dl[c].fetched = <<>>
            /\ c \in Creators => dl[c].objId # 0
            /\ \A k \in Creators : (c \in Creators /\ k # c) => dl[k].objId # dl[c].objId)
    /\ [][\A c \in Calls :
            (dl[c].objUrl # "revoked" /\ dl'[c].objUrl = "revoked") =>
                (dl[c].timer /\ ~dl'[c].timer)]_vars

C22_BothDeliveredOneRevoked ==
    /\ \A c \in Calls : dl[c].op = "download" /\ dl[c].ret = "true" /\ c \in Creators
    /\ \E c, k \in Calls : c # k /\ dl[c].objUrl = "revoked" /\ dl[k].objUrl = "created"

\* the descriptor is that of an image: an image MIME type and no PDF name
ExpectImage(d) ==
    /\ ~expectPdf(d)
    /\ ExtOfMime(Lower(d.mimetype)) \in {JpgExt, PngExt, <<".", "g", "i", "f">>}

\* C23: for a remote artifact that is an image, download fetches the stored
\* URL with its image-delivery segment unchanged
C23_ImageSegmentKeptForImages ==
    \A c \in Started :
        (dl[c].op = "download" /\ dl[c].strategy = "remote" /\ ExpectImage(dl[c].desc)
            /\ Includes(dl[c].desc.url, ImageSeg)) =>
            \A u \in Range(dl[c].fetched) : Includes(u, ImageSeg) /\ ~Includes(u, RawSeg)

C23_ImageFetchedAsRaw ==
    \E c \in Started :
        /\ dl[c].op = "download"
        /\ ExpectImage(dl[c].desc)
        /\ dl[c].desc.url = CloudImg
        /\ dl[c].desc.publicId = <<>>
        /\ dl[c].fetched = <<DeliveryUrl("raw", StoredId, PdfExt) \o <<"?", "fl_attachment">>>>

\* C24: a download issues at most one GET, with credentials omitted, and the
\* request once issued is never issued again, whatever its outcome
C24_SingleGetNoRetry ==
    /\ [](\A c \in Started :
            dl[c].op = "download" =>
                /\ Len(dl[c].fetched) <= 1
                /\ dl[c].fetched # <<>> =>
                      (dl[c].request.method = "GET" /\ dl[c].request.credentials = "omit")
                /\ dl[c].fetched = <<>> => dl[c].request.method = "none")
    /\ [][\A c \in Calls :
            dl[c].pc # "idle" =>
                (dl'[c].fetched = dl[c].fetched /\ dl'[c].request = dl[c].request)]_vars

C24_FailedAfterOneGet ==
    \E c \in Started :
        /\ dl[c].op = "download"
        /\ dl[c].pc = "done"
        /\ dl[c].status = 500
        /\ dl[c].ret = "false"
        /\ Len(dl[c].fetched) = 1
        /\ dl[c].request.credentials = "omit"

\* how many times the attachment hint occurs in a URL
Hints(u) == Cardinality({i \in 1..Len(u) : u[i] = "fl_attachment"})

\* C25: a download of a remote artifact on the store host fetches a URL that
\* carries fl_attachment exactly once; view and print open the stored URL as
\* it is
C25_AttachmentHintOnce ==
    \A c \in Started :
        /\ (dl[c].op = "download" /\ dl[c].strategy = "remote"
                /\ Includes(dl[c].desc.url, <<CloudHost>>)) =>
              (Len(dl[c].fetched) = 1 /\ Hints(dl[c].fetched[1]) = 1)
        /\ (dl[c].op \in {"view", "print"} /\ dl[c].strategy = "remote") =>
              \A u \in Range(dl[c].opened) : u = dl[c].desc.url

C25_HintNotRepeated ==
    \E c \in Started :
        /\ dl[c].op = "download"
        /\ dl[c].desc.url = CloudRawAttach
        /\ dl[c].fetched = <<CloudRawAttach>>

PdfDeleters == {"deleteNotice", "updateNotice", "deleteSubmission"}

\* C26: an artifact that a delete of deleteNotice, updateNotice or
\* deleteSubmission named is still in the store only if the store's delete
\* failed, and the delete named the resource type the artifact is filed under
C26_DeleteUsesPutType ==
    res.handler \in PdfDeleters =>
        \A i \in Destroys : \A a \in store :
            a.id = log[i].publicId =>
                (a.rtype = log[i].resource_type /\ ~log[i].ok)

C26_RawArtifactSurvivesDelete ==
    /\ res.handler = "deleteNotice"
    /\ res.status = 200
    /\ \E i \in Destroys :
          /\ log[i].ok
          /\ log[i].resource_type = "image"
          /\ [id |-> log[i].publicId, rtype |-> "raw"] \in store

----------------------------------------------------------------------------
(* The global error handler *)

Envs == {"production", "development", "test", Undef}

ErrNames == {"Error", "ValidationError", "CastError", "JsonWebTokenError",
             "TokenExpiredError"}
ErrCodes == {Undef, "11000", "LIMIT_FILE_SIZE", "LIMIT_UNEXPECTED_FILE"}
ErrStatusCodes == {0, 400, 404, 500}
ErrMessages == {<<"connect ECONNREFUSED 10.0.0.5:27017">>, <<"email_1 dup key">>}
ErrStacks == {Undef, "at NoticeController.createNotice"}

\* the errors handed to the handler; a Mongoose validation error carries its
\* errors map and a duplicate-key error its keyValue
Errors ==
    [name : ErrNames, code : ErrCodes, statusCode : ErrStatusCodes,
     message : ErrMessages, errors : {<<"Title is required">>},
     keyValue : {"email"}, stack : ErrStacks]

GenericMessage == <<"Something went wrong">>

errorHandlerLeaks(err, nodeEnv) ==
    LET e0 == [success |-> FALSE, message |-> <<"Internal Server Error">>, statusCode |-> 500]
        e8 == IF err.statusCode # 0
              THEN [e0 EXCEPT !.statusCode = err.statusCode, !.message = err.message]
              ELSE e0
    IN [status |-> e8.statusCode, success |-> e8.success, message |-> e8.message,
        stack |-> IF nodeEnv = "development" THEN err.stack ELSE Undef]

\* errorHandler: the status and the JSON body it sends for an error; a stack
\* of Undef stands for a body without the field (JSON drops undefined values)
errorHandler(err, nodeEnv) ==
    LET e0 == [success |-> FALSE, message |-> <<"Internal Server Error">>, statusCode |-> 500]
        e1 == IF err.name = "ValidationError"
              THEN [success |-> FALSE, message |-> <<"Validation Error: ">> \o err.errors,
                    statusCode |-> 400]
              ELSE e0
        e2 == IF err.code = "11000"
              THEN [success |-> FALSE, message |-> <<err.keyValue, " already exists">>,
                    statusCode |-> 400]
              ELSE e1
        e3 == IF err.name = "CastError"
              THEN [success |-> FALSE, message |-> <<"Invalid ID format">>, statusCode |-> 400]
              ELSE e2
        e4 == IF err.name = "JsonWebTokenError"
              THEN [success |-> FALSE, message |-> <<"Invalid token">>, statusCode |-> 401]
              ELSE e3
        e5 == IF err.name = "TokenExpiredError"
              THEN [success |-> FALSE, message |-> <<"Token expired">>, statusCode |-> 401]
              ELSE e4
        e6 == IF err.code = "LIMIT_FILE_SIZE"
              THEN [success |-> FALSE, message |-> <<"File too large">>, statusCode |-> 400]
              ELSE e5
        e7 == IF err.code = "LIMIT_UNEXPECTED_FILE"
              THEN [success |-> FALSE, message |-> <<"Unexpected file field">>, statusCode |-> 400]
              ELSE e6
        e8 == IF err.statusCode # 0
              THEN [e7 EXCEPT !.statusCode = err.statusCode, !.message = err.message]
              ELSE e7
        e9 == IF nodeEnv = "production" /\ e8.statusCode = 500
              THEN [e8 EXCEPT !.message = GenericMessage]
              ELSE e8
    IN [status |-> e9.statusCode, success |-> e9.success, message |-> e9.message,
        stack |-> IF nodeEnv = "development" THEN err.stack ELSE Undef]

\* app.use(errorHandler): an error reaches the handler and is answered
handleError(err) ==
    LET out == errorHandler(err, env)
    IN /\ res' = [handler |-> "errorHandler", doc |-> {}, staged |-> NoPath,
                  mimetype |-> <<>>, status |-> out.status, message |-> out.message,
                  err |-> err, stack |-> out.stack]
       /\ UNCHANGED <<disk, store, notices, submissions, gallery, nreq, log, procVars>>

ErrorsInit ==
    /\ ServerInit
    /\ ClientIdle
    /\ env \in Envs
    /\ inflight = [q \in Reqs |-> IdleRequest]

ErrorsNext == \E err \in Errors : handleError(err) /\ UNCHANGED clientVars

SpecErrors == ErrorsInit /\ [][ErrorsNext]_vars

\* C27: in production a response with status 500 carries the generic message
\* and not the message of the error, and a response has a stack field only in
\* development
C27_ProductionHidesDetails ==
    res.handler = "errorHandler" =>
        /\ (env = "production" /\ res.status = 500) =>
              (res.message = GenericMessage /\ res.message # res.err.message)
        /\ res.stack # Undef => env = "development"

C27_CustomErrorSanitized ==
    /\ res.handler = "errorHandler"
    /\ env = "production"
    /\ res.err.statusCode = 500
    /\ res.err.stack # Undef
    /\ res.status = 500
    /\ res.message = GenericMessage

\* the notice and submission requests, the store answering every destroy call
\* successfully
DocumentRequests ==
    \/ \E f \in BOOLEAN, file \in Files : createNotice(f, file)
    \/ \E id \in Slots, file \in Files : updateNotice(id, file)
    \/ \E id \in Slots : deleteNotice(id)
    \/ \E f \in BOOLEAN, file \in Files : submitFormWithFile(f, file)
    \/ \E id \in Slots : deleteSubmission(id)

DocumentSettles ==
    \/ \E q \in Reqs, ok \in BOOLEAN : findSettles(q, ok)
    \/ \E q \in Reqs : destroySettles(q, TRUE)
    \/ \E q \in Reqs, r \in PutReplies : putSettles(q, r)
    \/ \E q \in Reqs, s \in BOOLEAN : saveSettles(q, s)
    \/ \E q \in Reqs, ok \in BOOLEAN : removeSettles(q, ok)

DocumentsNext == DocumentRequests \/ DocumentSettles

SpecDocuments == Init /\ [][DocumentsNext]_vars

\* a persisted notice, submission or gallery image names the artifact
Referenced(a) ==
    \/ \E i \in Slots : notices[i].present /\ notices[i].pdfFile.publicId = a.id
    \/ \E i \in Slots : submissions[i].present /\ submissions[i].pdfFile.publicId = a.id
    \/ \E i \in Slots : gallery[i].present /\ GalleryPublicId(gallery[i].imageUrl) = a.id

\* every request that arrived has been answered
Quiet == \A q \in Reqs : inflight[q].pc \in {"idle", "done"}

\* C28: over a run of notice and submission requests whose remote deletes all
\* succeed, once every request is answered every artifact in the store is
\* referenced by a persisted record
C28_NoUnreferencedArtifact == Quiet => \A a \in store : Referenced(a)

C28_ArtifactLeftByFailedSave ==
    /\ Quiet
    /\ res.handler = "createNotice"
    /\ res.status = 500
    /\ \E i \in Puts :
          /\ log[i].ok
          /\ \E a \in store : a.id = log[i].publicId /\ ~Referenced(a)

----------------------------------------------------------------------------
(* The gallery router *)

\* the routes of the gallery router in declaration order; a path is the
\* sequence of its segments
GalleryRoutes ==
    << [method |-> "GET", path |-> <<>>, handler |-> "getAllImages"],
       [method |-> "GET", path |-> <<"category", ":category">>, handler |-> "getImagesByCategory"],
       [method |-> "GET", path |-> <<":id">>, handler |-> "getImageById"],
       [method |-> "POST", path |-> <<"upload">>, handler |-> "uploadImage"],
       [method |-> "PUT", path |-> <<":id">>, handler |-> "updateImage"],
       [method |-> "PUT", path |-> <<"reorder">>, handler |-> "reorderImages"],
       [method |-> "GET", path |-> <<"admin", "stats">>, handler |-> "getGalleryStats"],
       [method |-> "DELETE", path |-> <<":id">>, handler |-> "deleteImage"] >>

IsParam(segment) == segment \in {":id", ":category"}

\* a route path matches a request path of the same length whose segments
\* equal its literal segments; a parameter takes any segment
Matches(pattern, path) ==
    /\ Len(pattern) = Len(path)
    /\ \A i \in 1..Len(pattern) : IsParam(pattern[i]) \/ pattern[i] = path[i]

Hits(routes, method, path) ==
    {i \in 1..Len(routes) : routes[i].method = method /\ Matches(routes[i].path, path)}

\* the router hands the request to the first route that matches; the
\* handlers answer without calling next, so no later route sees it
Dispatch(routes, method, path) ==
    LET hits == Hits(routes, method, path)
    IN IF hits = {} THEN "notFound"
       ELSE routes[CHOOSE i \in hits : \A j \in hits : i <= j].handler

Methods == {"GET", "POST", "PUT", "DELETE"}
Segments == {"category", "upload", "reorder", "admin", "stats", "meeting", "id1"}
Paths == UNION {[1..n -> Segments] : n \in 0..MaxSegments}

\* req.params.id: the segment that names the first document, or one that is
\* no ObjectId
ParamId(segment) == IF segment = "id1" THEN 1 ELSE CastId

\* what a request carries besides its path. upload.single('image') is in the
\* chain of POST /upload only, so only there a file is staged
NoBody ==
    [fieldsOk |-> TRUE, file |-> NoUpload, order |-> NoOrder, isArray |-> FALSE,
     imageOrders |-> {}]
BodiesFor(handler) ==
    CASE handler = "uploadImage" ->
           {[NoBody EXCEPT !.fieldsOk = f, !.file = file] : f \in BOOLEAN, file \in Files}
      [] handler = "updateImage" ->
           {[NoBody EXCEPT !.order = o] : o \in NewOrders \cup {NoOrder}}
      [] handler = "reorderImages" ->
           {NoBody} \cup {[NoBody EXCEPT !.isArray = TRUE, !.imageOrders = u] : u \in ImageOrders}
      [] OTHER -> {NoBody}

\* a request of an authenticated admin reaches the gallery router: the router
\* picks the handler, which runs up to its first await
galleryRequest(method, path, body) ==
    LET handler == Dispatch(GalleryRoutes, method, path)
        via == [method |-> method, path |-> path]
    IN CASE handler = "getAllImages" -> readImages(via, handler, "")
         [] handler = "getImagesByCategory" -> readImages(via, handler, path[2])
         [] handler = "getGalleryStats" -> readImages(via, handler, "")
         [] handler = "getImageById" -> getImageById(via, ParamId(path[1]))
         [] handler = "uploadImage" ->
              ArrivesVia(via, handler, body.fieldsOk, 0, body.file)
         [] handler = "updateImage" -> updateImageVia(via, ParamId(path[1]), body.order)
         [] handler = "reorderImages" ->
              reorderImagesVia(via, body.isArray, body.imageOrders)
         [] handler = "deleteImage" ->
              ArrivesVia(via, handler, TRUE, ParamId(path[1]), NoUpload)
         [] OTHER -> notFound(via)

\* the requests the router takes and the awaited calls of their handlers. No
\* update of a reorderImages request is among them: none is ever pending
RoutesNext ==
    \/ /\ nreq < MaxReqs
       /\ \E method \in Methods, path \in Paths :
             \E body \in BodiesFor(Dispatch(GalleryRoutes, method, path)) :
                 galleryRequest(method, path, body)
    \/ \E q \in Reqs, ok \in BOOLEAN : findSettles(q, ok)
    \/ \E q \in Reqs, d \in BOOLEAN : destroySettles(q, d)
    \/ \E q \in Reqs, r \in PutReplies : putSettles(q, r)
    \/ \E q \in Reqs, ok \in BOOLEAN : orderSettles(q, ok)
    \/ \E q \in Reqs, s \in BOOLEAN : saveSettles(q, s)
    \/ \E q \in Reqs, ok \in BOOLEAN : removeSettles(q, ok)
    \/ \E q \in Reqs, ok \in BOOLEAN : querySettles(q, ok)

SpecRoutes == Init /\ [][RoutesNext]_vars

\* the requests in flight that came by the method and path, and whether the
\* last response answers such a request
Came(method, path) ==
    {q \in Reqs : inflight[q].pc \notin {"idle", "done"}
                    /\ inflight[q].via = [method |-> method, path |-> path]}
Answered(method, path) == res.via = [method |-> method, path |-> path]
Routed == res.via # NoRoute \/ \E q \in Reqs : inflight[q].via # NoRoute

\* C29: a PUT request to /reorder is handed to reorderImages, and every route
\* of the router is the first match of some request
C29_ReorderDispatched ==
    Routed =>
        /\ \A q \in Came("PUT", <<"reorder">>) : inflight[q].handler = "reorderImages"
        /\ Answered("PUT", <<"reorder">>) => res.handler = "reorderImages"
        /\ \A i \in 1..Len(GalleryRoutes) :
              \E m \in Methods, p \in Paths :
                  Dispatch(GalleryRoutes, m, p) = GalleryRoutes[i].handler

\* the request PUT /reorder is in flight in updateImage, at its findById
C29_ReorderHandledByUpdateImage ==
    \E q \in Came("PUT", <<"reorder">>) :
        /\ inflight[q].handler = "updateImage"
        /\ inflight[q].pc = "finding"
        /\ inflight[q].id = CastId

----------------------------------------------------------------------------
(* uploadImage requests handled together *)

UploadsNext ==
    \/ \E f \in BOOLEAN, file \in Files : uploadImage(f, file)
    \/ \E q \in Reqs, r \in PutReplies : putSettles(q, r)
    \/ \E q \in Reqs, ok \in BOOLEAN : orderSettles(q, ok)
    \/ \E q \in Reqs, s \in BOOLEAN : saveSettles(q, s)

SpecUploads == Init /\ [][UploadsNext]_vars

Arrived == {q \in Reqs : inflight[q].pc # "idle"}
Succeeded == {q \in Reqs : inflight[q].pc = "done" /\ inflight[q].status = 201}

\* C30: when every uploadImage request that arrived has succeeded, the images
\* they created carry pairwise distinct order values, each greater than the
\* largest order value present when its request arrived
C30_DistinctOrders ==
    Arrived = Succeeded =>
        /\ \A p, q \in Succeeded :
              p # q => gallery[inflight[p].slot].order # gallery[inflight[q].slot].order
        /\ \A q \in Succeeded : gallery[inflight[q].slot].order > inflight[q].startMax

C30_TwoImagesSameOrder ==
    \E p, q \in Succeeded :
        /\ p # q
        /\ Arrived = Succeeded
        /\ inflight[p].slot # inflight[q].slot
        /\ gallery[inflight[p].slot].order = gallery[inflight[q].slot].order

====
